---- MODULE Spec2Model ----
(***************************************************************************)
(* Model of the TesseraCT submission / sequencing / integration pipeline:  *)
(* CTStorage.Add and CTStorage.dedupeFuture (storage/storage.go) running   *)
(* against the Tessera appender, antispam index and publication awaiter.   *)
(*                                                                         *)
(* The appender, the antispam layer and the publication awaiter live in    *)
(* the Tessera library; their behaviour is taken from the specification    *)
(* (sections 4.4, 4.5, 4.6 and 5).  CTStorage is translated from the Go    *)
(* source, one action per atomic step of a request goroutine.              *)
(***************************************************************************)
EXTENDS Integers, Sequences, FiniteSets, TLC

\* ------------------------------------------------------------------ bounds

\* Number of concurrent add-chain requests (each calls CTStorage.Add once).
NumReqs == 3
\* Number of distinct canonical leaves the requests choose from.
NumLeaves == 2
\* Largest value of the pushback_max_dedupe_in_flight flag explored.
MaxDedupeCfg == 1
\* Number of requests in the runs that check liveness under fairness.
NumFairReqs == 2

\* layout.EntryBundleWidth: leaves per entry bundle.
EntryBundleWidth == 256

\* AddIssuerChain calls, which may overlap.
NumCalls == 2
\* Distinct issuer certificates (keys of the issuer store).
NumKeys == 3
\* Longest chain passed to AddIssuerChain.
MaxChain == 2
\* maxCachedIssuerKeys, scaled down from 1 << 20.
CacheCap == 2

\* Latest instant a NotAfter bound may name.
MaxTime == 2

\* Longest extension list of a TBSCertificate handed to the entry builder.
MaxExts == 3

\* Largest log a duplicate is recovered from (more than one entry bundle).
MaxLogSize == 300

Reqs == 1..NumReqs
Calls == 1..NumCalls
Keys == 1..NumKeys
Leaves == 1..NumLeaves

\* ------------------------------------------------------------------- state

VARIABLES
    \* --- configuration captured at construction (NewCTStorage)
    enableAwaiter,            \* CTStorage.enableAwaiter
    maxDedupeFutureInFlight,  \* CTStorage.maxDedupeFutureInFlight
    \* --- CTStorage
    dedupeFutureInFlight,     \* CTStorage.dedupeFutureInFlight (atomic.Int64)
    \* --- the goroutine running resetDedupeFutureInFlightJob
    ctxDone,                  \* whether the ctx given to NewCTStorage is cancelled
    resetJob,                 \* "running" in its loop, "stopped" once it returned
    \* --- one goroutine per request, inside CTStorage.Add
    pc,                       \* position of request r in Add / dedupeFuture
    entry,                    \* the ctonly.Entry passed to Add: [leaf, ts]
    future,                   \* the tessera.IndexFuture storeData returned
    cpRaw,                    \* dedupeFuture's local cpRaw, the checkpoint Await returned
    ret,                      \* what Add returned: [index, ts, err]
    \* --- appender (sequencer, integrator, checkpoint publisher)
    clock,                    \* submission clock (entry.Timestamp source)
    queue,                    \* current batch: requests whose entry is queued
    log,                      \* sequenced entries, log[i+1] holds index i
    treeSize,                 \* leaves integrated into the Merkle tree
    pubInFlight,              \* sizes of checkpoints being written
    checkpoint,               \* size of the latest published checkpoint
    published,                \* every checkpoint size published, in order
    \* --- antispam
    followerPos,              \* integrated leaves the follower has walked
    lru,                      \* in-process dedupe cache: requests whose future is cached
    \* --- publication awaiter
    awSize,                   \* size of the checkpoint last polled
    \* --- history (observation only)
    admitted,                 \* dedupeFuture calls past the admission check since the last reset
    \* --- issuer storage
    issuerBackend,            \* which IssuerStorage the wrapper was built over
    objects,                  \* the backing store: key -> stored value (NoVal: absent)
    m,                        \* cachedStoreIssuers' local key cache
    ipc,                      \* position of call c in cachedStoreIssuers
    kvs,                      \* the []KV AddIssuerChain built for call c
    req,                      \* cachedStoreIssuers' local req: the KVs not found in m
    ipos,                     \* loop position of call c (1-based)
    ierr,                     \* what call c returned
    lenFloor,                 \* len(m) at call c's last operation under mu
    \* --- log configuration (config.go)
    logCfg,                   \* the arguments of New: [origin, signer, cfg]
    validated,                \* what New and newCertValidationOpts returned for them
    \* --- entry building (internal/x509util)
    x509Call,                 \* the function called and its arguments
    x509Ret                   \* what it returned

vars == <<enableAwaiter, maxDedupeFutureInFlight, dedupeFutureInFlight, ctxDone,
          resetJob, pc, entry,
          future, cpRaw, ret, clock, queue, log, treeSize, pubInFlight, checkpoint,
          published, followerPos, lru, awSize, admitted,
          issuerBackend, objects, m, ipc, kvs, req, ipos, ierr, lenFloor,
          logCfg, validated, x509Call, x509Ret>>

cfgVars == <<enableAwaiter, maxDedupeFutureInFlight>>
reqVars == <<pc, entry, future, cpRaw, ret>>
seqVars == <<clock, queue, log>>
pubVars == <<treeSize, pubInFlight, checkpoint, published>>
asVars == <<followerPos, lru>>
awVars == <<awSize>>
ddVars == <<dedupeFutureInFlight, admitted>>
jobVars == <<ctxDone, resetJob>>
logCfgVars == <<logCfg, validated>>
x509Vars == <<x509Call, x509Ret>>
ctVars == <<cfgVars, jobVars, reqVars, seqVars, pubVars, asVars, awVars, ddVars>>
issVars == <<issuerBackend, objects, m, ipc, kvs, req, ipos, ierr, lenFloor>>

\* No index: a value outside the log indices.
NoIdx == 0 - 1
NoEntry == [leaf |-> 0, ts |-> 0]
NoFuture == [kind |-> "none", owner |-> 0, idx |-> 0, dup |-> FALSE]
NoCp == <<>>
NoRet == [index |-> 0, ts |-> 0, err |-> "pending", at |-> 0]

\* ----------------------------------------------------------------- helpers

\* A signed-note checkpoint body "<origin>\n<size>\n<root-hash>\n", as its lines.
Checkpoint(size) == <<"origin", size, "root">>

\* Position (log index) of the entry queued by request o; NoIdx before its flush.
IndexOfOwner(o) ==
    IF \E i \in 1..Len(log) : log[i] = o
    THEN (CHOOSE i \in 1..Len(log) : log[i] = o) - 1
    ELSE NoIdx

\* future(): the Index an IndexFuture resolves to, once it can.
FutureResolved(f) ==
    \/ f.kind = "fixed"
    \/ f.kind = "err"
    \/ f.kind = "queued" /\ IndexOfOwner(f.owner) # NoIdx

FutureIndex(f) ==
    IF f.kind = "fixed" THEN f.idx ELSE IndexOfOwner(f.owner)

\* The leaf and timestamp sequenced at log index i.
LogEntry(i) == entry[log[i + 1]]

\* The state NewCTStorage leaves, before any request; n requests will arrive.
\* No value stored under a key.
NoVal == 0

\* cachedStoreIssuers(opts.IssuerStorage) at construction: empty cache, n
\* callers, a backing store that may already hold objects.
IssuerInit(n, backends) ==
    /\ issuerBackend \in backends
    /\ objects = [k \in Keys |-> NoVal]
    /\ m = {}
    /\ ipc = [c \in Calls |-> IF c <= n THEN "idle" ELSE "absent"]
    /\ kvs = [c \in Calls |-> <<>>]
    /\ req = [c \in Calls |-> <<>>]
    /\ ipos = [c \in Calls |-> 1]
    /\ ierr = [c \in Calls |-> "pending"]
    /\ lenFloor = [c \in Calls |-> 0]

CTInit(n) ==
    /\ enableAwaiter \in BOOLEAN
    /\ maxDedupeFutureInFlight \in 0..MaxDedupeCfg
    /\ dedupeFutureInFlight = 0
    /\ ctxDone = FALSE
    /\ resetJob = "running"
    /\ pc = [r \in Reqs |-> IF r <= n THEN "idle" ELSE "absent"]
    /\ entry = [r \in Reqs |-> NoEntry]
    /\ future = [r \in Reqs |-> NoFuture]
    /\ cpRaw = [r \in Reqs |-> NoCp]
    /\ ret = [r \in Reqs |-> NoRet]
    /\ clock = 0
    /\ queue = <<>>
    /\ log = <<>>
    /\ treeSize = 0
    /\ pubInFlight = {}
    /\ checkpoint = 0
    /\ published = <<>>
    /\ followerPos = 0
    /\ lru = {}
    /\ awSize = 0
    /\ admitted = 0

\* ---------------------------------------------- log configuration

\* A *time.Time that is nil.
NoTime == 0 - 1
Times == 0..MaxTime

\* The crypto.Signer handed to New: nil, or a signer with this public key.
Signers ==
    {[type |-> "nil", curve |-> ""],
     [type |-> "ecdsa", curve |-> "P-256"],
     [type |-> "ecdsa", curve |-> "P-384"],
     [type |-> "rsa", curve |-> ""],
     [type |-> "ed25519", curve |-> ""]}

\* RootsPemFile: unset, a file that does not load, a file of trusted roots.
RootsFiles == {"", "bogus.cert", "fake-ca.cert"}

\* ExtKeyUsages, as the names between its commas ("" splits into no name).
ExtKeyUsagesInputs == {<<>>, <<"ServerAuth", "ClientAuth">>, <<"ClientAuth", "Any">>,
                       <<"ServerAuth", "TimeStomping">>, <<"Any", "TimeStomping">>,
                       <<"Any ">>, <<"Any", "ServerAuth">>, <<"TimeStomping", "Any">>}

\* RejectExtensions, as the dotted strings between its commas, each as the
\* pieces between its dots.
RejectExtensionsInputs == {<<>>, <<<<"1", "2">>, <<"5", "6">>>>, <<<<"1", "2">>, <<"one", "2">>>>}

CertValidationConfigs ==
    [RootsPemFile : RootsFiles,
     RejectExpired : BOOLEAN,
     RejectUnexpired : BOOLEAN,
     ExtKeyUsages : ExtKeyUsagesInputs,
     RejectExtensions : RejectExtensionsInputs,
     NotAfterStart : Times \cup {NoTime},
     NotAfterLimit : Times \cup {NoTime}]

\* Nothing validated yet.
NoValidated == [done |-> FALSE]

LogCfgInit(inputs) ==
    /\ logCfg \in inputs
    /\ validated = NoValidated

\* The configuration of a running log (it is validated before NewCTStorage).
DefaultLogCfg ==
    [origin |-> "example.com/log",
     signer |-> [type |-> "ecdsa", curve |-> "P-256"],
     cfg |-> [RootsPemFile |-> "fake-ca.cert", RejectExpired |-> FALSE,
              RejectUnexpired |-> FALSE, ExtKeyUsages |-> <<>>,
              RejectExtensions |-> <<>>, NotAfterStart |-> NoTime,
              NotAfterLimit |-> NoTime]]

\* No call into x509util, and nothing returned.
NoCall == [fn |-> "none"]
NoX509Ret == [done |-> FALSE]

X509Init(calls) ==
    /\ x509Call \in calls
    /\ x509Ret = NoX509Ret

InitWith(n) ==
    /\ CTInit(n) /\ IssuerInit(0, {"inmemory"}) /\ LogCfgInit({DefaultLogCfg})
    /\ X509Init({NoCall})

Init == InitWith(NumReqs)

\* ------------------------------------------------- appender (Tessera, 4.4)

\* The persistent antispam index, leaf -> index: the follower records, for each
\* leaf it has walked, the first index that holds it.
Indexed(l) == {i \in 0..(followerPos - 1) : LogEntry(i).leaf = l}

asIndex(l) ==
    IF Indexed(l) = {} THEN NoIdx
    ELSE CHOOSE i \in Indexed(l) : \A j \in Indexed(l) : i <= j

\* Whether the in-process dedupe cache holds a future for leaf l, and whose.
Cached(l) == {o \in lru : entry[o].leaf = l}

\* Appender.Add behind storeData: the in-process cache is consulted first, then
\* the persistent antispam index; a miss on both queues the entry in the batch.
AppenderAdd(r, l) ==
    IF Cached(l) # {}
    THEN LET o == CHOOSE o \in Cached(l) : TRUE IN
         /\ future' = [future EXCEPT ![r] = [future[o] EXCEPT !.dup = TRUE]]
         /\ UNCHANGED <<lru, queue>>
    ELSE /\ lru' = lru \cup {r}
         /\ IF asIndex(l) # NoIdx
            THEN /\ future' = [future EXCEPT ![r] =
                        [kind |-> "fixed", owner |-> 0, idx |-> asIndex(l), dup |-> TRUE]]
                 /\ UNCHANGED queue
            ELSE /\ future' = [future EXCEPT ![r] =
                        [kind |-> "queued", owner |-> r, idx |-> 0, dup |-> FALSE]]
                 /\ queue' = Append(queue, r)

\* A batch flush (on size or age): the queued entries get the next indices.
FlushMutReverse ==
    /\ queue # <<>>
    /\ log' = log \o [i \in 1..Len(queue) |-> queue[Len(queue) + 1 - i]]
    /\ queue' = <<>>
    /\ UNCHANGED <<x509Vars, logCfgVars, issVars, cfgVars, jobVars, reqVars, clock, pubVars, asVars, awVars, ddVars>>

Flush ==
    /\ queue # <<>>
    /\ log' = log \o queue
    /\ queue' = <<>>
    /\ UNCHANGED <<x509Vars, logCfgVars, issVars, cfgVars, jobVars, reqVars, clock, pubVars, asVars, awVars, ddVars>>

\* The background integrator: sequenced entries enter the tree and its bundles.
Integrate ==
    /\ treeSize < Len(log)
    /\ \E n \in (treeSize + 1)..Len(log) : treeSize' = n
    /\ UNCHANGED <<x509Vars, logCfgVars, issVars, cfgVars, jobVars, reqVars, seqVars, pubInFlight, checkpoint, published,
                   asVars, awVars, ddVars>>

\* The checkpoint publisher, a single writer: it snapshots the integrated size,
\* then writes the signed checkpoint.
PublishBeginMutNoLock ==
    /\ treeSize > checkpoint
    /\ treeSize \notin pubInFlight
    /\ pubInFlight' = pubInFlight \cup {treeSize}
    /\ UNCHANGED <<x509Vars, logCfgVars, issVars, cfgVars, jobVars, reqVars, seqVars, treeSize, checkpoint, published,
                   asVars, awVars, ddVars>>

PublishBegin ==
    /\ pubInFlight = {}
    /\ treeSize > checkpoint
    /\ pubInFlight' = {treeSize}
    /\ UNCHANGED <<x509Vars, logCfgVars, issVars, cfgVars, jobVars, reqVars, seqVars, treeSize, checkpoint, published,
                   asVars, awVars, ddVars>>

PublishEnd ==
    /\ \E s \in pubInFlight :
        /\ checkpoint' = s
        /\ published' = Append(published, s)
        /\ pubInFlight' = pubInFlight \ {s}
    /\ UNCHANGED <<x509Vars, logCfgVars, issVars, cfgVars, jobVars, reqVars, seqVars, treeSize, asVars, awVars, ddVars>>

\* ------------------------------------------------------- antispam (4.5)

\* The follower walks the integrated log, one leaf at a time.  Its progress is
\* observable only by a later submission.
Follow ==
    /\ \E r \in Reqs : pc[r] = "idle"
    /\ followerPos < treeSize
    /\ followerPos' = followerPos + 1
    /\ UNCHANGED <<x509Vars, logCfgVars, issVars, cfgVars, jobVars, reqVars, seqVars, pubVars, lru, awVars, ddVars>>

\* The bounded in-process cache drops an entry under pressure from other
\* traffic.  An eviction is observable only by a later submission.
Evict ==
    /\ \E r \in Reqs : pc[r] = "idle"
    /\ \E o \in lru : lru' = lru \ {o}
    /\ UNCHANGED <<x509Vars, logCfgVars, issVars, cfgVars, jobVars, reqVars, seqVars, pubVars, followerPos,
                   awVars, ddVars>>

\* --------------------------------------------- publication awaiter (4.6)

\* pollLoop: read the published checkpoint and wake the waiters it covers.
Poll ==
    /\ published # <<>>
    /\ awSize # checkpoint
    /\ awSize' = checkpoint
    /\ UNCHANGED <<x509Vars, logCfgVars, issVars, cfgVars, jobVars, reqVars, seqVars, pubVars, asVars, ddVars>>

\* Await(ctx, future) may return once the polled size exceeds the index ...
AwaitReady(i) == awSize > i

\* ... and hands back the checkpoint the poller last read.
AwaitCheckpoint == Checkpoint(awSize)

\* ------------------------------------------------ log reader (tiles, 3)

\* layout.PartialTileSize(0, index, logSize): 0 asks for a full bundle.
PartialTileSizeMutFullAtFrontier(index, logSize) ==
    IF index <= logSize \div EntryBundleWidth THEN 0 ELSE logSize % EntryBundleWidth

PartialTileSize(index, logSize) ==
    IF index < logSize \div EntryBundleWidth THEN 0 ELSE logSize % EntryBundleWidth

\* reader.ReadEntryBundle(ctx, eBIdx, p): the first p entries (all of them when
\* p = 0) of bundle eBIdx, if the integrator has written that many.
ReadEntryBundle(eBIdx, p) ==
    LET n == IF p = 0 THEN EntryBundleWidth ELSE p
        base == eBIdx * EntryBundleWidth
    IN IF base + n <= treeSize
       THEN [ok |-> TRUE, entries |-> [k \in 1..n |-> LogEntry(base + k - 1)]]
       ELSE [ok |-> FALSE, entries |-> <<>>]

\* timestamp(ebRaw, N): the timestamp of the Nth entry of a bundle.
timestamp(entries, N) ==
    IF N < Len(entries) THEN [ok |-> TRUE, t |-> entries[N + 1].ts]
    ELSE [ok |-> FALSE, t |-> 0]

\* ------------------------------------------------------------- CTStorage

\* What Add returns; a successful return also notes the submission clock, so
\* that "submitted after this call returned" can be told.
Ret(index, ts, err) ==
    [index |-> index, ts |-> ts, err |-> err, at |-> IF err = "nil" THEN clock ELSE 0]

\* The request that submits next.
NextToSubmit(r) == IF r = 1 THEN TRUE ELSE pc[r - 1] # "idle"

\* Add, storage.go:162: storeData hands the entry to the appender.  The entry
\* carries the submission time as its timestamp.  Requests are interchangeable
\* until they submit, so they submit in the order of their ids.
AddStoreData(r) ==
    /\ pc[r] = "idle"
    /\ NextToSubmit(r)
    /\ \E l \in Leaves :
        /\ entry' = [entry EXCEPT ![r] = [leaf |-> l, ts |-> clock + 1]]
        /\ AppenderAdd(r, l)
    /\ clock' = clock + 1
    /\ pc' = [pc EXCEPT ![r] = "future"]
    /\ UNCHANGED <<x509Vars, logCfgVars, issVars, cfgVars, jobVars, cpRaw, ret, log, pubVars, followerPos,
                   awVars, ddVars>>

\* Add, storage.go:162-166: the appender pushes back, the future yields an error.
AddFutureErr(r) ==
    /\ pc[r] = "idle"
    /\ NextToSubmit(r)
    /\ future' = [future EXCEPT ![r] = [kind |-> "err", owner |-> 0, idx |-> 0, dup |-> FALSE]]
    /\ pc' = [pc EXCEPT ![r] = "done"]
    /\ ret' = [ret EXCEPT ![r] = Ret(0, 0, "future")]
    /\ UNCHANGED <<x509Vars, logCfgVars, issVars, cfgVars, jobVars, entry, cpRaw, seqVars, pubVars, asVars, awVars, ddVars>>

\* Add, storage.go:168-179: where Add goes once the future gave an index.
AddBranchMutNoAwait(isDup) ==
    IF isDup THEN "dd_load" ELSE "done"

AddBranchMutDupHonoursFlag(isDup) ==
    IF ~enableAwaiter THEN "done"
    ELSE IF isDup THEN "dd_load" ELSE "await"

AddBranch(isDup) ==
    IF isDup THEN "dd_load"
    ELSE IF enableAwaiter THEN "await" ELSE "done"

\* Add, storage.go:163-179: future() returns the assigned index.
AddFutureMutReturnTime(r) ==
    /\ pc[r] = "future"
    /\ future[r].kind # "err"
    /\ FutureResolved(future[r])
    /\ LET next == AddBranch(future[r].dup) IN
        /\ pc' = [pc EXCEPT ![r] = next]
        /\ ret' = IF next = "done"
                  THEN [ret EXCEPT ![r] = Ret(FutureIndex(future[r]), clock, "nil")]
                  ELSE ret
    /\ UNCHANGED <<x509Vars, logCfgVars, issVars, cfgVars, jobVars, entry, future, cpRaw, seqVars, pubVars, asVars,
                   awVars, ddVars>>

AddFuture(r) ==
    /\ pc[r] = "future"
    /\ future[r].kind # "err"
    /\ FutureResolved(future[r])
    /\ LET next == AddBranch(future[r].dup) IN
        /\ pc' = [pc EXCEPT ![r] = next]
        /\ ret' = IF next = "done"
                  THEN [ret EXCEPT ![r] = Ret(FutureIndex(future[r]), entry[r].ts, "nil")]
                  ELSE ret
    /\ UNCHANGED <<x509Vars, logCfgVars, issVars, cfgVars, jobVars, entry, future, cpRaw, seqVars, pubVars, asVars,
                   awVars, ddVars>>

\* Add, storage.go:172-177: the publication awaiter is enabled, Add waits for
\* the checkpoint covering the index and drops the checkpoint.
AddAwait(r) ==
    /\ pc[r] = "await"
    /\ AwaitReady(FutureIndex(future[r]))
    /\ pc' = [pc EXCEPT ![r] = "done"]
    /\ ret' = [ret EXCEPT ![r] = Ret(FutureIndex(future[r]), entry[r].ts, "nil")]
    /\ UNCHANGED <<x509Vars, logCfgVars, issVars, cfgVars, jobVars, entry, future, cpRaw, seqVars, pubVars, asVars, awVars, ddVars>>

\* Add, storage.go:173-176: Await fails (the request's context ended).
AddAwaitErrMutRollback(r) ==
    /\ pc[r] = "await"
    /\ pc' = [pc EXCEPT ![r] = "done"]
    /\ ret' = [ret EXCEPT ![r] = Ret(0, 0, "await")]
    /\ log' = SubSeq(log, 1, Len(log) - 1)
    /\ UNCHANGED <<x509Vars, logCfgVars, issVars, cfgVars, jobVars, entry, future, cpRaw, clock, queue, pubVars, asVars,
                   awVars, ddVars>>

AddAwaitErr(r) ==
    /\ pc[r] = "await"
    /\ pc' = [pc EXCEPT ![r] = "done"]
    /\ ret' = [ret EXCEPT ![r] = Ret(0, 0, "await")]
    /\ UNCHANGED <<x509Vars, logCfgVars, issVars, cfgVars, jobVars, entry, future, cpRaw, seqVars, pubVars, asVars,
                   awVars, ddVars>>

\* dedupeFuture, storage.go:121: the admission check.
DedupeAdmit == ~(dedupeFutureInFlight > maxDedupeFutureInFlight)

\* dedupeFuture, storage.go:121-123: Load and compare; too many means pushback.
DedupeLoad(r) ==
    /\ pc[r] = "dd_load"
    /\ IF DedupeAdmit
       THEN /\ pc' = [pc EXCEPT ![r] = "dd_add"]
            /\ admitted' = admitted + 1
            /\ UNCHANGED ret
       ELSE /\ pc' = [pc EXCEPT ![r] = "done"]
            /\ ret' = [ret EXCEPT ![r] = Ret(0, 0, "pushback")]
            /\ UNCHANGED admitted
    /\ UNCHANGED <<x509Vars, logCfgVars, issVars, cfgVars, jobVars, entry, future, cpRaw, seqVars, pubVars, asVars,
                   awVars, dedupeFutureInFlight>>

\* dedupeFuture, storage.go:124: Add(1).
DedupeAdd(r) ==
    /\ pc[r] = "dd_add"
    /\ dedupeFutureInFlight' = dedupeFutureInFlight + 1
    /\ pc' = [pc EXCEPT ![r] = "dd_await"]
    /\ UNCHANGED <<x509Vars, logCfgVars, issVars, cfgVars, jobVars, entry, future, cpRaw, ret, seqVars, pubVars, asVars,
                   awVars, admitted>>

\* dedupeFuture, storage.go:126: Await returns the index and a checkpoint.
DedupeAwaitMutNoWait(r) ==
    /\ pc[r] = "dd_await"
    /\ published # <<>>
    /\ cpRaw' = [cpRaw EXCEPT ![r] = Checkpoint(checkpoint)]
    /\ pc' = [pc EXCEPT ![r] = "dd_read"]
    /\ UNCHANGED <<x509Vars, logCfgVars, issVars, cfgVars, jobVars, entry, future, ret, seqVars, pubVars, asVars, awVars, ddVars>>

DedupeAwait(r) ==
    /\ pc[r] = "dd_await"
    /\ AwaitReady(FutureIndex(future[r]))
    /\ cpRaw' = [cpRaw EXCEPT ![r] = AwaitCheckpoint]
    /\ pc' = [pc EXCEPT ![r] = "dd_read"]
    /\ UNCHANGED <<x509Vars, logCfgVars, issVars, cfgVars, jobVars, entry, future, ret, seqVars, pubVars, asVars, awVars, ddVars>>

\* dedupeFuture, storage.go:126-129: Await fails (the request's context ended).
DedupeAwaitErrMutRelease(r) ==
    /\ pc[r] = "dd_await"
    /\ pc' = [pc EXCEPT ![r] = "done"]
    /\ ret' = [ret EXCEPT ![r] = Ret(0, 0, "await")]
    /\ dedupeFutureInFlight' = dedupeFutureInFlight - 1
    /\ UNCHANGED <<x509Vars, logCfgVars, issVars, cfgVars, jobVars, entry, future, cpRaw, seqVars, pubVars, asVars,
                   awVars, admitted>>

DedupeAwaitErrMutBlocks(r) ==
    /\ pc[r] = "dd_await"
    /\ FALSE
    /\ UNCHANGED vars

DedupeAwaitErr(r) ==
    /\ pc[r] = "dd_await"
    /\ pc' = [pc EXCEPT ![r] = "done"]
    /\ ret' = [ret EXCEPT ![r] = Ret(0, 0, "await")]
    /\ UNCHANGED <<x509Vars, logCfgVars, issVars, cfgVars, jobVars, entry, future, cpRaw, seqVars, pubVars, asVars,
                   awVars, ddVars>>

\* dedupeFuture, storage.go:131-154: parse the checkpoint size, fetch the entry
\* bundle holding the index and extract the entry's timestamp.
DedupeResultMutOwnTs(r) ==
    Ret(FutureIndex(future[r]), entry[r].ts, "nil")

DedupeResultMutBundleIdx(r) ==
    LET idx == FutureIndex(future[r])
        eB == ReadEntryBundle(idx \div EntryBundleWidth,
                  PartialTileSize(idx \div EntryBundleWidth, cpRaw[r][2]))
        t == timestamp(eB.entries, idx % EntryBundleWidth)
    IN Ret(idx \div EntryBundleWidth, t.t, "nil")

DedupeResult(r) ==
    LET idx == FutureIndex(future[r])
        l == cpRaw[r]
    IN IF Len(l) < 2 THEN Ret(0, 0, "checkpoint")
       ELSE LET ckptSize == l[2]
                eBIdx == idx \div EntryBundleWidth
                eB == ReadEntryBundle(eBIdx, PartialTileSize(eBIdx, ckptSize))
                eIdx == idx % EntryBundleWidth
                t == timestamp(eB.entries, eIdx)
            IN IF ~eB.ok THEN Ret(0, 0, "bundle")
               ELSE IF ~t.ok THEN Ret(0, 0, "timestamp")
               ELSE Ret(idx, t.t, "nil")

DedupeReadMutRelease(r) ==
    /\ pc[r] = "dd_read"
    /\ ret' = [ret EXCEPT ![r] = DedupeResult(r)]
    /\ cpRaw' = [cpRaw EXCEPT ![r] = NoCp]
    /\ pc' = [pc EXCEPT ![r] = "done"]
    /\ dedupeFutureInFlight' = dedupeFutureInFlight - 1
    /\ UNCHANGED <<x509Vars, logCfgVars, issVars, cfgVars, jobVars, entry, future, seqVars, pubVars, asVars, awVars,
                   admitted>>

DedupeRead(r) ==
    /\ pc[r] = "dd_read"
    /\ ret' = [ret EXCEPT ![r] = DedupeResult(r)]
    /\ cpRaw' = [cpRaw EXCEPT ![r] = NoCp]
    /\ pc' = [pc EXCEPT ![r] = "done"]
    /\ UNCHANGED <<x509Vars, logCfgVars, issVars, cfgVars, jobVars, entry, future, seqVars, pubVars, asVars, awVars, ddVars>>

\* resetDedupeFutureInFlightJob, storage.go:103-104: the ticker fires and the
\* select takes it.  A tick that is due when the context ends may still be
\* taken: select chooses among the ready cases at random.
ResetDedupeFutureInFlightMutNoStore ==
    /\ resetJob = "running"
    /\ UNCHANGED vars

ResetDedupeFutureInFlight ==
    /\ resetJob = "running"
    /\ dedupeFutureInFlight' = 0
    /\ admitted' = 0
    /\ UNCHANGED <<x509Vars, logCfgVars, issVars, cfgVars, jobVars, reqVars, seqVars, pubVars, asVars, awVars>>

\* The request is cancelled after Add returned and before the SCT is sent: the
\* caller never learns the index.
CancelAfterAdd(r) ==
    /\ pc[r] = "done"
    /\ ret[r].err = "nil"
    /\ pc' = [pc EXCEPT ![r] = "cancelled"]
    /\ UNCHANGED <<x509Vars, logCfgVars, issVars, cfgVars, jobVars, entry, future, cpRaw, ret, seqVars, pubVars, asVars,
                   awVars, ddVars>>

\* The submitter of a duplicate that was pushed back calls Add again with the
\* same certificate (storage.go:162 anew); what the previous call returned
\* stays with the submitter until the new call returns.
Retry(r) ==
    /\ pc[r] = "done"
    /\ ret[r].err = "pushback"
    /\ entry' = [entry EXCEPT ![r].ts = clock]
    /\ AppenderAdd(r, entry[r].leaf)
    /\ pc' = [pc EXCEPT ![r] = "future"]
    /\ UNCHANGED <<x509Vars, logCfgVars, issVars, cfgVars, jobVars, cpRaw, ret, clock, log, pubVars,
                   followerPos, awVars, ddVars>>

\* The same call when the appender pushes back (storage.go:162-166): the
\* future of the new call yields an error, and a future the dedupe cache holds
\* for the entry is not touched.
RetryFutureErr(r) ==
    /\ pc[r] = "done"
    /\ ret[r].err = "pushback"
    /\ ret' = [ret EXCEPT ![r] = Ret(0, 0, "future")]
    /\ UNCHANGED <<x509Vars, logCfgVars, issVars, cfgVars, jobVars, pc, entry, future, cpRaw, seqVars,
                   pubVars, asVars, awVars, ddVars>>

\* Sustained duplicate traffic: a certificate that was answered as a duplicate
\* is submitted once more.
Resubmit(r) ==
    /\ pc[r] = "done"
    /\ ret[r].err = "nil"
    /\ future[r].dup
    /\ entry' = [entry EXCEPT ![r].ts = clock]
    /\ AppenderAdd(r, entry[r].leaf)
    /\ pc' = [pc EXCEPT ![r] = "future"]
    /\ UNCHANGED <<x509Vars, logCfgVars, issVars, cfgVars, jobVars, cpRaw, ret, clock, log, pubVars,
                   followerPos, awVars, ddVars>>

\* The ctx handed to NewCTStorage (storage.go:79, 91) is cancelled.
ServerCancel ==
    /\ ~ctxDone
    /\ ctxDone' = TRUE
    /\ UNCHANGED <<x509Vars, logCfgVars, issVars, cfgVars, resetJob, reqVars, seqVars, pubVars, asVars,
                   awVars, ddVars>>

\* resetDedupeFutureInFlightJob, storage.go:101-102: ctx.Done() is taken, the
\* goroutine returns.
ResetJobReturn ==
    /\ resetJob = "running"
    /\ ctxDone
    /\ resetJob' = "stopped"
    /\ UNCHANGED <<x509Vars, logCfgVars, issVars, cfgVars, ctxDone, reqVars, seqVars, pubVars, asVars,
                   awVars, ddVars>>

\* ------------------------------------------------------ issuer storage

\* storage.go:46.
maxCachedIssuerKeys == CacheCap

\* The chains AddIssuerChain may be given: certificates are told apart by their
\* sha256, which is the key they are stored under.
Chains == UNION {[1..n -> Keys] : n \in 0..MaxChain}

\* The call that is made next.
NextToCall(c) == IF c = 1 THEN TRUE ELSE ipc[c - 1] # "idle"

\* AddIssuerChain, storage.go:185-195: one KV per certificate of the chain,
\* K the hex sha256 of the certificate and V the bytes the caller supplied,
\* then the call enters cachedStoreIssuers' wrapper.
AddIssuerChain(c, chain) ==
    /\ ipc[c] = "idle"
    /\ NextToCall(c)
    /\ kvs' = [kvs EXCEPT ![c] = [i \in 1..Len(chain) |-> [K |-> chain[i], V |-> c]]]
    /\ req' = [req EXCEPT ![c] = <<>>]
    /\ ipos' = [ipos EXCEPT ![c] = 1]
    /\ ierr' = [ierr EXCEPT ![c] = "pending"]
    /\ ipc' = [ipc EXCEPT ![c] = IF chain = <<>> THEN "store" ELSE "lookup"]
    /\ UNCHANGED <<x509Vars, logCfgVars, ctVars, issuerBackend, objects, m, lenFloor>>

\* cachedStoreIssuers, storage.go:210-219: one iteration of the lookup loop;
\* a key found in m under the read lock is left out of req.
CacheLookupMutSkipWhenFull(c) ==
    LET kv == kvs[c][ipos[c]] IN
    IF kv.K \in m \/ Cardinality(m) >= maxCachedIssuerKeys
    THEN req[c] ELSE Append(req[c], kv)

CacheLookupReq(c) ==
    LET kv == kvs[c][ipos[c]] IN
    IF kv.K \in m THEN req[c] ELSE Append(req[c], kv)

CacheLookup(c) ==
    /\ ipc[c] = "lookup"
    /\ req' = [req EXCEPT ![c] = CacheLookupReq(c)]
    /\ lenFloor' = [lenFloor EXCEPT ![c] = Cardinality(m)]
    /\ IF ipos[c] < Len(kvs[c])
       THEN /\ ipos' = [ipos EXCEPT ![c] = ipos[c] + 1]
            /\ UNCHANGED ipc
       ELSE /\ ipos' = [ipos EXCEPT ![c] = 1]
            /\ ipc' = [ipc EXCEPT ![c] = "store"]
    /\ UNCHANGED <<x509Vars, logCfgVars, ctVars, issuerBackend, objects, m, kvs, ierr>>

\* inmemory/issuers.go:35-42: the body of the loop for one KV.
InMemoryPutMutOverwrite(s, kv) == [s EXCEPT ![kv.K] = kv.V]

InMemoryPut(s, kv) ==
    IF s[kv.K] # NoVal THEN s ELSE [s EXCEPT ![kv.K] = kv.V]

\* inmemory/issuers.go:34-44: the loop over the first n KVs of the request.
RECURSIVE InMemoryLoop(_, _, _)
InMemoryLoop(s, kv, n) ==
    IF n = 0 THEN s ELSE InMemoryPut(InMemoryLoop(s, kv, n - 1), kv[n])

\* cachedStoreIssuers, storage.go:220, over the in-memory store
\* (inmemory/issuers.go:34-44): the whole call, which always returns nil.  The
\* map has no lock of its own; calls into it are taken one at a time.
InMemoryAddIssuersIfNotExist(c) ==
    /\ ipc[c] = "store"
    /\ issuerBackend = "inmemory"
    /\ objects' = InMemoryLoop(objects, req[c], Len(req[c]))
    /\ ipc' = [ipc EXCEPT ![c] = "cache"]
    /\ ipos' = [ipos EXCEPT ![c] = 1]
    /\ UNCHANGED <<x509Vars, logCfgVars, ctVars, issuerBackend, m, kvs, req, ierr, lenFloor>>

\* What S3 may answer to PutObject with IfNoneMatch "*" for key k: the object
\* is created, or the precondition fails because it exists, or the service
\* answers with another API error, or the request fails without an API error
\* (transport failure, cancelled context).
PutObjectOutcomes(k) ==
    (IF objects[k] = NoVal THEN {"ok"} ELSE {"PreconditionFailed"})
        \cup {"APIError", "error"}

\* aws/issuers.go:85-93: what the loop body does with PutObject's answer.
\* errors.As leaves apiErr nil when err is no smithy.APIError, and
\* apiErr.ErrorCode() on the nil interface panics.
AwsAfterPutMutContinue(o) ==
    CASE o = "ok" -> "continue"
      [] o = "PreconditionFailed" -> "continue"
      [] o = "APIError" -> "return_err"
      [] OTHER -> "return_err"

AwsAfterPut(o) ==
    CASE o = "ok" -> "continue"
      [] o = "PreconditionFailed" -> "return_nil"
      [] o = "APIError" -> "return_err"
      [] OTHER -> "panic"

\* cachedStoreIssuers, storage.go:220-222, over the S3 store
\* (aws/issuers.go:75-95): one iteration of the loop, i.e. one PutObject.
AwsAddIssuersIfNotExist(c) ==
    /\ ipc[c] = "store"
    /\ issuerBackend = "aws"
    /\ IF ipos[c] > Len(req[c])
       THEN /\ ipc' = [ipc EXCEPT ![c] = "cache"]
            /\ ipos' = [ipos EXCEPT ![c] = 1]
            /\ UNCHANGED <<objects, ierr>>
       ELSE LET kv == req[c][ipos[c]] IN
            \E o \in PutObjectOutcomes(kv.K) :
                LET do == AwsAfterPut(o)
                    last == ipos[c] = Len(req[c])
                IN /\ objects' = IF o = "ok" THEN [objects EXCEPT ![kv.K] = kv.V]
                                 ELSE objects
                   /\ ipc' = [ipc EXCEPT ![c] =
                                 CASE do = "continue" -> IF last THEN "cache" ELSE "store"
                                   [] do = "return_nil" -> "cache"
                                   [] do = "return_err" -> "done"
                                   [] OTHER -> "crashed"]
                   /\ ipos' = [ipos EXCEPT ![c] =
                                 IF do = "continue" /\ ~last THEN ipos[c] + 1 ELSE 1]
                   /\ ierr' = [ierr EXCEPT ![c] =
                                 CASE do = "return_err" -> "store"
                                   [] do = "panic" -> "panic"
                                   [] OTHER -> ierr[c]]
    /\ UNCHANGED <<x509Vars, logCfgVars, ctVars, issuerBackend, m, kvs, req, lenFloor>>

\* cachedStoreIssuers, storage.go:224: len(m) is read without holding mu, so
\* the read may see any length the map had since this call last held the lock.
LenRead(c) == lenFloor[c]..Cardinality(m)

\* cachedStoreIssuers, storage.go:223-227 and 232: the loop test and the
\* capacity check for the next KV of req.
CacheCheck(c) ==
    /\ ipc[c] = "cache"
    /\ IF ipos[c] > Len(req[c])
       THEN /\ ipc' = [ipc EXCEPT ![c] = "done"]
            /\ ierr' = [ierr EXCEPT ![c] = "nil"]
       ELSE \E n \in LenRead(c) :
                IF n >= maxCachedIssuerKeys
                THEN /\ ipc' = [ipc EXCEPT ![c] = "done"]
                     /\ ierr' = [ierr EXCEPT ![c] = "nil"]
                ELSE /\ ipc' = [ipc EXCEPT ![c] = "insert"]
                     /\ UNCHANGED ierr
    /\ UNCHANGED <<x509Vars, logCfgVars, ctVars, issuerBackend, objects, m, kvs, req, ipos, lenFloor>>

\* cachedStoreIssuers, storage.go:228-230: the key is added under the lock.
CacheInsert(c) ==
    /\ ipc[c] = "insert"
    /\ m' = m \cup {req[c][ipos[c]].K}
    /\ lenFloor' = [lenFloor EXCEPT ![c] = Cardinality(m')]
    /\ ipos' = [ipos EXCEPT ![c] = ipos[c] + 1]
    /\ ipc' = [ipc EXCEPT ![c] = "cache"]
    /\ UNCHANGED <<x509Vars, logCfgVars, ctVars, issuerBackend, objects, kvs, req, ierr>>

\* ------------------------------------------- config.go: New and friends

\* x509util.PEMCertPool.AppendCertsFromPEMFile, config.go:92: whether the
\* roots file can be read.
RootsLoad(file) == file = "fake-ca.cert"

\* config.go:164-177: the names stringToKeyUsage knows.
stringToKeyUsage ==
    {"Any", "ServerAuth", "ClientAuth", "CodeSigning", "EmailProtection",
     "IPSECEndSystem", "IPSECTunnel", "IPSECUser", "TimeStamping", "OCSPSigning",
     "MicrosoftServerGatedCrypto", "NetscapeServerGatedCrypto"}

\* strconv.Atoi on one piece of a dotted OID.
Atoi(piece) ==
    LET digits == ("1" :> 1) @@ ("2" :> 2) @@ ("5" :> 5) @@ ("6" :> 6) IN
    IF piece \in DOMAIN digits THEN [ok |-> TRUE, n |-> digits[piece]]
    ELSE [ok |-> FALSE, n |-> 0]

\* parseOIDs, config.go:147-162.
parseOIDs(oids) ==
    IF \E i \in 1..Len(oids) : \E j \in 1..Len(oids[i]) : ~Atoi(oids[i][j]).ok
    THEN [err |-> "atoi", ret |-> <<>>]
    ELSE [err |-> "nil",
          ret |-> [i \in 1..Len(oids) |-> [j \in 1..Len(oids[i]) |-> Atoi(oids[i][j]).n]]]

\* config.go:119-132: the loop over the extended key usages, from name i on.
RECURSIVE ExtKeyUsagesLoopMutKeepsEarlier(_, _, _)
ExtKeyUsagesLoopMutKeepsEarlier(names, i, acc) ==
    IF i > Len(names) THEN [err |-> "nil", extKeyUsages |-> acc]
    ELSE IF names[i] \notin stringToKeyUsage
         THEN [err |-> "unknown extended key usage", extKeyUsages |-> <<>>]
    ELSE IF names[i] = "Any" THEN [err |-> "nil", extKeyUsages |-> acc]
    ELSE ExtKeyUsagesLoopMutKeepsEarlier(names, i + 1, Append(acc, names[i]))

RECURSIVE ExtKeyUsagesLoop(_, _, _)
ExtKeyUsagesLoop(names, i, acc) ==
    IF i > Len(names) THEN [err |-> "nil", extKeyUsages |-> acc]
    ELSE IF names[i] \notin stringToKeyUsage
         THEN [err |-> "unknown extended key usage", extKeyUsages |-> <<>>]
    ELSE IF names[i] = "Any" THEN [err |-> "nil", extKeyUsages |-> <<>>]
    ELSE ExtKeyUsagesLoop(names, i + 1, Append(acc, names[i]))

\* config.go:96: cfg.RejectExpired && cfg.RejectUnexpired.
RejectsAllMutNever(cfg) == FALSE

RejectsAll(cfg) == cfg.RejectExpired /\ cfg.RejectUnexpired

\* config.go:101: both bounds set and NotAfterLimit.Before(NotAfterStart).
LimitBeforeStartMutNotAfter(cfg) ==
    /\ cfg.NotAfterStart # NoTime
    /\ cfg.NotAfterLimit # NoTime
    /\ cfg.NotAfterLimit <= cfg.NotAfterStart

LimitBeforeStart(cfg) ==
    /\ cfg.NotAfterStart # NoTime
    /\ cfg.NotAfterLimit # NoTime
    /\ cfg.NotAfterLimit < cfg.NotAfterStart

\* No *CertValidationOpts / *ValidatedLogConfig returned (nil).
NoOpts == [none |-> TRUE]

\* newCertValidationOpts, config.go:86-145.
newCertValidationOpts(cfg) ==
    IF cfg.RootsPemFile = "" THEN [err |-> "empty rootsPemFile", opts |-> NoOpts]
    ELSE IF ~RootsLoad(cfg.RootsPemFile)
         THEN [err |-> "failed to read trusted roots", opts |-> NoOpts]
    ELSE IF RejectsAll(cfg)
         THEN [err |-> "rejecting all certificates", opts |-> NoOpts]
    ELSE IF LimitBeforeStart(cfg)
         THEN [err |-> "limit before start", opts |-> NoOpts]
    ELSE LET eku == ExtKeyUsagesLoop(cfg.ExtKeyUsages, 1, <<>>)
             ext == parseOIDs(cfg.RejectExtensions)
         IN IF eku.err # "nil" THEN [err |-> eku.err, opts |-> NoOpts]
            ELSE IF ext.err # "nil"
                 THEN [err |-> "failed to parse RejectExtensions", opts |-> NoOpts]
            ELSE [err |-> "nil",
                  opts |-> [trustedRoots |-> cfg.RootsPemFile,
                            rejectExpired |-> cfg.RejectExpired,
                            rejectUnexpired |-> cfg.RejectUnexpired,
                            notAfterStart |-> cfg.NotAfterStart,
                            notAfterLimit |-> cfg.NotAfterLimit,
                            extKeyUsages |-> eku.extKeyUsages,
                            rejectExtIds |-> ext.ret]]

\* config.go:68-72: the type switch on signer.Public(); *ecdsa.PublicKey is
\* the only case, whatever its curve.
SignerSupported(signer) == signer.type = "ecdsa"

\* New, config.go:55-82.
New(origin, signer, cfg) ==
    IF origin = "" THEN [err |-> "empty origin", vCfg |-> NoOpts]
    ELSE IF signer.type = "nil" THEN [err |-> "empty signer", vCfg |-> NoOpts]
    ELSE IF ~SignerSupported(signer)
         THEN [err |-> "unsupported key type", vCfg |-> NoOpts]
    ELSE LET vlc == newCertValidationOpts(cfg) IN
         IF vlc.err # "nil"
         THEN [err |-> "invalid cert validation config", vCfg |-> NoOpts]
         ELSE [err |-> "nil",
               vCfg |-> [Origin |-> origin, Signer |-> signer,
                         CertValidationOpts |-> vlc.opts]]

\* The arguments New is tried on.
LogCfgInputs ==
    [origin : {"", "example.com/log"}, signer : Signers, cfg : CertValidationConfigs]

\* New and newCertValidationOpts are applied to the configuration.
ConfigNew ==
    /\ ~validated.done
    /\ validated' = [done |-> TRUE,
                     new |-> New(logCfg.origin, logCfg.signer, logCfg.cfg),
                     cvo |-> newCertValidationOpts(logCfg.cfg),
                     leaf |-> [done |-> FALSE]]
    /\ UNCHANGED <<x509Vars, logCfg, ctVars, issVars>>

\* The NotAfter window of the validator, applied to a leaf's NotAfter: the
\* start is inclusive, only dates strictly before the limit are accepted, and
\* an unset bound leaves its side open.
NotAfterWindowMutLimitInclusive(opts, notAfter) ==
    IF opts.notAfterStart # NoTime /\ notAfter < opts.notAfterStart
    THEN "before not_after_start"
    ELSE IF opts.notAfterLimit # NoTime /\ notAfter > opts.notAfterLimit
         THEN "not before not_after_limit"
    ELSE "nil"

NotAfterWindow(opts, notAfter) ==
    IF opts.notAfterStart # NoTime /\ notAfter < opts.notAfterStart
    THEN "before not_after_start"
    ELSE IF opts.notAfterLimit # NoTime /\ notAfter >= opts.notAfterLimit
         THEN "not before not_after_limit"
    ELSE "nil"

\* A leaf is checked against the window of an accepted configuration.
ValidateNotAfter ==
    /\ validated.done
    /\ validated.cvo.err = "nil"
    /\ ~validated.leaf.done
    /\ \E notAfter \in Times :
          validated' = [validated EXCEPT !.leaf =
                           [done |-> TRUE, notAfter |-> notAfter,
                            err |-> NotAfterWindow(validated.cvo.opts, notAfter)]]
    /\ UNCHANGED <<x509Vars, logCfg, ctVars, issVars>>

\* ---------------------------------- entry building (internal/x509util, 4.2)

\* The extension and key usage identifiers the entry builder looks for.
OIDExtensionCTPoison == "1.3.6.1.4.1.11129.2.4.3"
OIDExtKeyUsageCertificateTransparency == "1.3.6.1.4.1.11129.2.4.4"
OIDExtAuthorityKeyId == "2.5.29.35"
anyExtendedKeyUsage == "2.5.29.37.0"

\* The key identifiers of the certificates: the pre-issuer's key (the AKI of a
\* precert it signed) and the key of the pre-issuer's issuer.
preIssuerKeyID == "19091970"
issuerKeyID == "07072007"
NoKeyID == ""

poisonExt == [Id |-> OIDExtensionCTPoison, Value |-> "NULL"]
akiExt(keyID) == [Id |-> OIDExtAuthorityKeyId, Value |-> keyID]
basicConstraintsExt == [Id |-> "2.5.29.19", Value |-> "CA"]
subjectAltNameExt == [Id |-> "2.5.29.17", Value |-> "example.com"]

\* How many extensions of exts carry the identifier oid.
ExtCount(exts, oid) == Cardinality({i \in 1..Len(exts) : exts[i].Id = oid})

\* The extension lists of the TBSCertificates tried: any order of a poison
\* extension (none, one or two), an AKI and two other extensions.
ExtLists ==
    LET alphabet == {poisonExt, akiExt(preIssuerKeyID), basicConstraintsExt,
                     subjectAltNameExt}
    IN {exts \in UNION {[1..n -> alphabet] : n \in 0..MaxExts} :
           /\ ExtCount(exts, OIDExtensionCTPoison) <= 2
           /\ \A e \in alphabet \ {poisonExt} : ExtCount(exts, e.Id) <= 1}

\* No TBSCertificate, no certificate, no bytes (nil).
NoTBS == [none |-> "tbs"]
NoCert == [none |-> "cert"]
NoBytes == [none |-> "bytes"]

\* The DER of the TBSCertificates of precertificates and certificates.
LeafTBSs == [der : {"ok"}, Issuer : {"precert Issuer"}, Extensions : ExtLists]

\* The bytes handed to BuildPrecertTBS and RemoveCTPoison: a TBSCertificate,
\* one followed by trailing data, or bytes that are no DER at all.
TBSInputs ==
    LeafTBSs
    \cup {[der |-> "trailing", Issuer |-> "precert Issuer",
           Extensions |-> <<basicConstraintsExt, poisonExt>>],
          [der |-> "invalid", Issuer |-> "", Extensions |-> <<>>]}

\* The certificate submitted: its TBSCertificate under the submitter's key.
LeafCerts ==
    [Subject : {"precert subject"}, SPKI : {"leafKey"}, IsCA : {FALSE},
     ExtKeyUsage : {{}}, TBS : LeafTBSs]

rootCert ==
    [Subject |-> "root", SPKI |-> "rootKey", IsCA |-> TRUE, ExtKeyUsage |-> {},
     TBS |-> [der |-> "ok", Issuer |-> "root",
              Extensions |-> <<basicConstraintsExt>>]]

intermediateCert ==
    [Subject |-> "real Issuer", SPKI |-> "intermediateKey", IsCA |-> TRUE,
     ExtKeyUsage |-> {},
     TBS |-> [der |-> "ok", Issuer |-> "root",
              Extensions |-> <<basicConstraintsExt>>]]

\* The certificates that may stand right above the leaf: CA or not, with or
\* without the CT key usage and other key usages, with or without an AKI.
SecondCerts ==
    [Subject : {"precert Issuer"}, SPKI : {"preIssuerKey"}, IsCA : BOOLEAN,
     ExtKeyUsage : {{}, {anyExtendedKeyUsage},
                    {OIDExtKeyUsageCertificateTransparency},
                    {anyExtendedKeyUsage, OIDExtKeyUsageCertificateTransparency}},
     TBS : {[der |-> "ok", Issuer |-> "real Issuer",
             Extensions |-> <<basicConstraintsExt, akiExt(issuerKeyID)>>],
            [der |-> "ok", Issuer |-> "real Issuer",
             Extensions |-> <<basicConstraintsExt>>]}]

\* The chains handed to EntryFromChain: a leaf, then nothing, or its issuers
\* up to the root, with or without a certificate between leaf and
\* intermediate.
X509Chains ==
    LET above == {<<>>, <<intermediateCert>>, <<intermediateCert, rootCert>>}
                 \cup {<<c>> : c \in SecondCerts}
                 \cup {<<c, intermediateCert>> : c \in SecondCerts}
                 \cup {<<c, intermediateCert, rootCert>> : c \in SecondCerts}
    IN {<<leaf>> \o a : leaf \in LeafCerts, a \in above}

\* The preIssuer argument of BuildPrecertTBS: nil or a CA certificate.
PreIssuerArgs == {NoCert} \cup {c \in SecondCerts : c.IsCA}

\* cert.Raw, cert.RawTBSCertificate, cert.RawSubjectPublicKeyInfo,
\* cert.RawIssuer and the value of cert's AKI extension.
Raw(cert) == [certificate |-> cert]
RawTBSCertificate(cert) == cert.TBS
RawSubjectPublicKeyInfo(cert) == [spki |-> cert.SPKI]
RawIssuer(cert) == cert.TBS.Issuer

AuthorityKeyId(cert) ==
    LET exts == cert.TBS.Extensions
        at == {i \in 1..Len(exts) : exts[i].Id = OIDExtAuthorityKeyId}
    IN IF at = {} THEN NoKeyID
       ELSE exts[CHOOSE i \in at : \A j \in at : i <= j].Value

\* sha256.Sum256: injective on the inputs tried.
sha256(bytes) == [sha256 |-> bytes]

\* isPreIssuer: a CA certificate whose extended key usages hold the CT one.
isPreIssuerMutAlways(cert) == TRUE

isPreIssuerMutNoCA(cert) ==
    OIDExtKeyUsageCertificateTransparency \in cert.ExtKeyUsage

isPreIssuer(cert) ==
    /\ cert.IsCA
    /\ OIDExtKeyUsageCertificateTransparency \in cert.ExtKeyUsage

\* exts without its i-th extension.
RemoveAt(exts, i) == SubSeq(exts, 1, i - 1) \o SubSeq(exts, i + 1, Len(exts))

\* RemoveCTPoison: the TBSCertificate without its one CT poison extension.
RemoveCTPoisonMutFirstOfMany(tbs) ==
    LET at == {i \in 1..Len(tbs.Extensions) :
                  tbs.Extensions[i].Id = OIDExtensionCTPoison}
    IN IF tbs.der = "invalid" THEN [err |-> "failed to parse", tbs |-> NoTBS]
       ELSE IF tbs.der = "trailing" THEN [err |-> "trailing data", tbs |-> NoTBS]
       ELSE IF at = {}
            THEN [err |-> "no extension of specified type present", tbs |-> NoTBS]
       ELSE [err |-> "nil",
             tbs |-> [tbs EXCEPT !.Extensions =
                         RemoveAt(@, CHOOSE i \in at : \A j \in at : i <= j)]]

RemoveCTPoisonMutKeepsUnpoisoned(tbs) ==
    LET at == {i \in 1..Len(tbs.Extensions) :
                  tbs.Extensions[i].Id = OIDExtensionCTPoison}
    IN IF tbs.der = "invalid" THEN [err |-> "failed to parse", tbs |-> NoTBS]
       ELSE IF tbs.der = "trailing" THEN [err |-> "trailing data", tbs |-> NoTBS]
       ELSE IF at = {} THEN [err |-> "nil", tbs |-> tbs]
       ELSE IF Cardinality(at) > 1
            THEN [err |-> "multiple extensions of specified type present",
                  tbs |-> NoTBS]
       ELSE [err |-> "nil",
             tbs |-> [tbs EXCEPT !.Extensions = RemoveAt(@, CHOOSE i \in at : TRUE)]]

RemoveCTPoison(tbs) ==
    LET at == {i \in 1..Len(tbs.Extensions) :
                  tbs.Extensions[i].Id = OIDExtensionCTPoison}
    IN IF tbs.der = "invalid" THEN [err |-> "failed to parse", tbs |-> NoTBS]
       ELSE IF tbs.der = "trailing" THEN [err |-> "trailing data", tbs |-> NoTBS]
       ELSE IF at = {}
            THEN [err |-> "no extension of specified type present", tbs |-> NoTBS]
       ELSE IF Cardinality(at) > 1
            THEN [err |-> "multiple extensions of specified type present",
                  tbs |-> NoTBS]
       ELSE [err |-> "nil",
             tbs |-> [tbs EXCEPT !.Extensions = RemoveAt(@, CHOOSE i \in at : TRUE)]]

\* The AKI of the defanged TBS when a pre-issuer signed the precert: the
\* pre-issuer's own AKI takes the place of the precert's, is added when the
\* precert had none, and the precert's is dropped when the pre-issuer has none.
RewriteAKIMutOnlyIfBoth(exts, keyID) ==
    LET at == {i \in 1..Len(exts) : exts[i].Id = OIDExtAuthorityKeyId} IN
    IF at # {} /\ keyID # NoKeyID
    THEN [exts EXCEPT ![CHOOSE i \in at : \A j \in at : i <= j].Value = keyID]
    ELSE exts

RewriteAKI(exts, keyID) ==
    LET at == {i \in 1..Len(exts) : exts[i].Id = OIDExtAuthorityKeyId} IN
    IF at # {}
    THEN LET k == CHOOSE i \in at : \A j \in at : i <= j IN
         IF keyID # NoKeyID THEN [exts EXCEPT ![k].Value = keyID]
         ELSE RemoveAt(exts, k)
    ELSE IF keyID # NoKeyID THEN Append(exts, akiExt(keyID))
    ELSE exts

\* BuildPrecertTBS: the poison goes, and with a pre-issuer the issuer and the
\* AKI become those of the pre-issuer.
BuildPrecertTBS(tbs, preIssuer) ==
    LET r == RemoveCTPoison(tbs) IN
    IF r.err # "nil" \/ preIssuer = NoCert THEN r
    ELSE IF ~isPreIssuer(preIssuer)
         THEN [err |-> "issuer is not a CT pre-issuer", tbs |-> NoTBS]
    ELSE [err |-> "nil",
          tbs |-> [der |-> "ok",
                   Issuer |-> RawIssuer(preIssuer),
                   Extensions |-> RewriteAKI(r.tbs.Extensions,
                                             AuthorityKeyId(preIssuer))]]

\* The fingerprints of the certificates above the leaf.
FingerprintsChainMutSkipPreIssuer(chain) ==
    LET up == SelectSeq(SubSeq(chain, 2, Len(chain)), LAMBDA c : ~isPreIssuer(c))
    IN [i \in 1..Len(up) |-> sha256(Raw(up[i]))]

\* The fingerprints written into a buffer shared with the submission processed
\* just before.
FingerprintsChainMutSharedBuffer(chain) ==
    IF x509Ret.done /\ x509Ret.other.done
    THEN [i \in 1..(Len(x509Ret.other.chain) - 1) |->
             sha256(Raw(x509Ret.other.chain[i + 1]))]
    ELSE [i \in 1..(Len(chain) - 1) |-> sha256(Raw(chain[i + 1]))]

FingerprintsChain(chain) ==
    [i \in 1..(Len(chain) - 1) |-> sha256(Raw(chain[i + 1]))]

\* A chain whose second certificate is a pre-issuer needs a third one.
HasFinalIssuerMutAlways(chain) == TRUE

HasFinalIssuer(chain) == Len(chain) >= 3

\* The certificate whose key the entry's issuer key hash is taken from.
EffectiveIssuerMutFinal(chain) ==
    IF isPreIssuer(chain[2]) THEN chain[3] ELSE chain[2]

EffectiveIssuer(chain) == chain[2]

\* No entry returned (nil).
NoX509Entry == [none |-> "entry"]

\* EntryFromChain(chain, isPrecert, ts).
EntryFromChain(chain, isPrecert, ts) ==
    IF Len(chain) < 2 THEN [err |-> "no issuer", entry |-> NoX509Entry]
    ELSE IF ~isPrecert
         THEN [err |-> "nil",
               entry |-> [IsPrecert |-> FALSE, Timestamp |-> ts,
                          Certificate |-> Raw(chain[1]),
                          Precertificate |-> NoBytes,
                          IssuerKeyHash |-> NoBytes,
                          FingerprintsChain |-> FingerprintsChain(chain)]]
    ELSE IF isPreIssuer(chain[2]) /\ ~HasFinalIssuer(chain)
         THEN [err |-> "no final issuer", entry |-> NoX509Entry]
    ELSE LET preIssuer == IF isPreIssuer(chain[2]) THEN chain[2] ELSE NoCert
             defanged == BuildPrecertTBS(RawTBSCertificate(chain[1]), preIssuer)
         IN IF defanged.err # "nil"
            THEN [err |-> defanged.err, entry |-> NoX509Entry]
            ELSE [err |-> "nil",
                  entry |-> [IsPrecert |-> TRUE, Timestamp |-> ts,
                             Certificate |-> defanged.tbs,
                             Precertificate |-> Raw(chain[1]),
                             IssuerKeyHash |->
                                 sha256(RawSubjectPublicKeyInfo(EffectiveIssuer(chain))),
                             FingerprintsChain |-> FingerprintsChain(chain)]]

\* The calls tried.
X509Calls ==
    [fn : {"EntryFromChain"}, chain : X509Chains, isPrecert : BOOLEAN,
     timestamp : Times]
    \cup [fn : {"BuildPrecertTBS"}, tbs : TBSInputs, preIssuer : PreIssuerArgs]
    \cup [fn : {"RemoveCTPoison"}, tbs : TBSInputs]
    \cup [fn : {"isPreIssuer"}, cert : SecondCerts]

EntryFromChainCall ==
    /\ x509Call.fn = "EntryFromChain"
    /\ ~x509Ret.done
    /\ LET r == EntryFromChain(x509Call.chain, x509Call.isPrecert, x509Call.timestamp)
       IN x509Ret' = [done |-> TRUE, err |-> r.err, entry |-> r.entry,
                      other |-> NoX509Ret, again |-> NoX509Ret]
    /\ UNCHANGED <<x509Call, logCfgVars, ctVars, issVars>>

\* Other submissions whose entry is derived between two derivations of one.
OtherSubmissions ==
    {[chain |-> <<[Subject |-> "cert subject", SPKI |-> "otherKey", IsCA |-> FALSE,
                   ExtKeyUsage |-> {},
                   TBS |-> [der |-> "ok", Issuer |-> "real Issuer",
                            Extensions |-> <<subjectAltNameExt>>]],
                  intermediateCert, rootCert>>,
      isPrecert |-> FALSE],
     [chain |-> <<[Subject |-> "precert subject", SPKI |-> "otherKey",
                   IsCA |-> FALSE, ExtKeyUsage |-> {},
                   TBS |-> [der |-> "ok", Issuer |-> "real Issuer",
                            Extensions |-> <<poisonExt, subjectAltNameExt>>]],
                  intermediateCert>>,
      isPrecert |-> TRUE]}

\* The entry of another submission is derived.
EntryFromChainOther ==
    /\ x509Call.fn = "EntryFromChain"
    /\ x509Ret.done
    /\ ~x509Ret.other.done
    /\ ~x509Ret.again.done
    /\ \E o \in OtherSubmissions :
          LET r == EntryFromChain(o.chain, o.isPrecert, x509Call.timestamp)
          IN x509Ret' = [x509Ret EXCEPT !.other =
                            [done |-> TRUE, chain |-> o.chain, err |-> r.err,
                             entry |-> r.entry]]
    /\ UNCHANGED <<x509Call, logCfgVars, ctVars, issVars>>

\* The entry is derived again from the same chain, flag and timestamp.
EntryFromChainAgain ==
    /\ x509Call.fn = "EntryFromChain"
    /\ x509Ret.done
    /\ ~x509Ret.again.done
    /\ LET r == EntryFromChain(x509Call.chain, x509Call.isPrecert, x509Call.timestamp)
       IN x509Ret' = [x509Ret EXCEPT !.again =
                         [done |-> TRUE, err |-> r.err, entry |-> r.entry]]
    /\ UNCHANGED <<x509Call, logCfgVars, ctVars, issVars>>

BuildPrecertTBSCall ==
    /\ x509Call.fn = "BuildPrecertTBS"
    /\ ~x509Ret.done
    /\ LET r == BuildPrecertTBS(x509Call.tbs, x509Call.preIssuer)
       IN x509Ret' = [done |-> TRUE, err |-> r.err, tbs |-> r.tbs,
                      again |-> NoX509Ret, re |-> NoX509Ret]
    /\ UNCHANGED <<x509Call, logCfgVars, ctVars, issVars>>

\* BuildPrecertTBS is handed what it returned, with the same pre-issuer and
\* with none.
BuildPrecertTBSAgain ==
    /\ x509Call.fn = "BuildPrecertTBS"
    /\ x509Ret.done
    /\ x509Ret.err = "nil"
    /\ ~x509Ret.again.done
    /\ x509Ret' = [x509Ret EXCEPT !.again =
                      [done |-> TRUE,
                       same |-> BuildPrecertTBS(x509Ret.tbs, x509Call.preIssuer),
                       none |-> BuildPrecertTBS(x509Ret.tbs, NoCert)]]
    /\ UNCHANGED <<x509Call, logCfgVars, ctVars, issVars>>

\* BuildPrecertTBS is called again on the same arguments.
BuildPrecertTBSRederive ==
    /\ x509Call.fn = "BuildPrecertTBS"
    /\ x509Ret.done
    /\ ~x509Ret.re.done
    /\ LET r == BuildPrecertTBS(x509Call.tbs, x509Call.preIssuer)
       IN x509Ret' = [x509Ret EXCEPT !.re =
                         [done |-> TRUE, err |-> r.err, tbs |-> r.tbs]]
    /\ UNCHANGED <<x509Call, logCfgVars, ctVars, issVars>>

RemoveCTPoisonCall ==
    /\ x509Call.fn = "RemoveCTPoison"
    /\ ~x509Ret.done
    /\ LET r == RemoveCTPoison(x509Call.tbs)
       IN x509Ret' = [done |-> TRUE, err |-> r.err, tbs |-> r.tbs]
    /\ UNCHANGED <<x509Call, logCfgVars, ctVars, issVars>>

isPreIssuerCall ==
    /\ x509Call.fn = "isPreIssuer"
    /\ ~x509Ret.done
    /\ x509Ret' = [done |-> TRUE, is |-> isPreIssuer(x509Call.cert)]
    /\ UNCHANGED <<x509Call, logCfgVars, ctVars, issVars>>

\* ------------------------------------------------------- specification

Next ==
    \/ \E r \in Reqs : AddStoreData(r)
    \/ \E r \in Reqs : AddFutureErr(r)
    \/ \E r \in Reqs : AddFuture(r)
    \/ \E r \in Reqs : AddAwait(r)
    \/ \E r \in Reqs : AddAwaitErr(r)
    \/ \E r \in Reqs : DedupeLoad(r)
    \/ \E r \in Reqs : DedupeAdd(r)
    \/ \E r \in Reqs : DedupeAwait(r)
    \/ \E r \in Reqs : DedupeAwaitErr(r)
    \/ \E r \in Reqs : DedupeRead(r)
    \/ ResetDedupeFutureInFlight
    \/ Flush
    \/ Integrate
    \/ PublishBegin
    \/ PublishEnd
    \/ Follow
    \/ Evict
    \/ Poll

Spec == Init /\ [][Next]_vars

\* The same system with the callers' cancellations after Add returned, and
\* with background workers that keep running: a batch that can be flushed is
\* flushed, what is sequenced is integrated, what is integrated is published.
FairNext ==
    \/ Next
    \/ \E r \in Reqs : CancelAfterAdd(r)

FairSpec ==
    /\ InitWith(NumFairReqs)
    /\ [][FairNext]_vars
    /\ WF_vars(Flush)
    /\ WF_vars(Integrate)
    /\ WF_vars(PublishBegin)
    /\ WF_vars(PublishEnd)

\* The steps of the call serving request r, once it is submitted.
ReqStep(r) ==
    \/ AddFutureErr(r)
    \/ AddFuture(r)
    \/ AddAwait(r)
    \/ AddAwaitErr(r)
    \/ DedupeLoad(r)
    \/ DedupeAdd(r)
    \/ DedupeAwait(r)
    \/ DedupeAwaitErr(r)
    \/ DedupeRead(r)

\* The same system where every submitted call keeps being scheduled, its
\* request deadline fires while it waits in Await, and batches flush on age;
\* nothing obliges the integrator or the publisher to make progress.
DeadlineSpec ==
    /\ InitWith(NumFairReqs)
    /\ [][Next]_vars
    /\ WF_vars(Flush)
    /\ \A r \in Reqs : WF_vars(ReqStep(r))

\* The storage once a first entry is logged, published and known to the
\* antispam, built without the publication awaiter for new entries (duplicates
\* await in any case), with its reset job under a server that may be shut down, and
\* submitters that come back: a pushed-back duplicate is retried for as long as
\* it is pushed back, and answered duplicates may be submitted again.  The
\* ticker keeps firing while the job runs, the job takes ctx.Done() once it is
\* ready, every call and every retry is scheduled, batches flush on age.
ResetInit(limits) ==
    /\ enableAwaiter = FALSE
    /\ maxDedupeFutureInFlight \in limits
    /\ dedupeFutureInFlight = 0
    /\ ctxDone = FALSE
    /\ resetJob = "running"
    /\ admitted = 0
    /\ pc = [r \in Reqs |-> IF r = 1 THEN "done" ELSE "idle"]
    /\ entry = [r \in Reqs |-> IF r = 1 THEN [leaf |-> 1, ts |-> 1] ELSE NoEntry]
    /\ future = [r \in Reqs |->
                    IF r = 1 THEN [kind |-> "queued", owner |-> 1, idx |-> 0, dup |-> FALSE]
                    ELSE NoFuture]
    /\ cpRaw = [r \in Reqs |-> NoCp]
    /\ ret = [r \in Reqs |-> IF r = 1 THEN [index |-> 0, ts |-> 1, err |-> "nil", at |-> 1]
                             ELSE NoRet]
    /\ clock = 1
    /\ queue = <<>>
    /\ log = <<1>>
    /\ treeSize = 1
    /\ pubInFlight = {}
    /\ checkpoint = 1
    /\ published = <<1>>
    /\ followerPos = 1
    /\ lru = {1}
    /\ awSize = 1

ResetNext ==
    \/ \E r \in Reqs : AddStoreData(r)
    \/ \E r \in Reqs : AddFutureErr(r)
    \/ \E r \in Reqs : AddFuture(r)
    \/ \E r \in Reqs : DedupeLoad(r)
    \/ \E r \in Reqs : DedupeAdd(r)
    \/ \E r \in Reqs : DedupeAwait(r)
    \/ \E r \in Reqs : DedupeAwaitErr(r)
    \/ \E r \in Reqs : DedupeRead(r)
    \/ ResetDedupeFutureInFlight
    \/ Flush
    \/ Integrate
    \/ PublishBegin
    \/ PublishEnd
    \/ Follow
    \/ Evict
    \/ Poll
    \/ \E r \in Reqs : Retry(r)
    \/ \E r \in Reqs : RetryFutureErr(r)
    \/ \E r \in Reqs : Resubmit(r)
    \/ ServerCancel
    \/ ResetJobReturn

ResetSpec ==
    /\ ResetInit(0..MaxDedupeCfg)
    /\ IssuerInit(0, {"inmemory"})
    /\ LogCfgInit({DefaultLogCfg})
    /\ X509Init({NoCall})
    /\ [][ResetNext]_vars
    /\ WF_vars(ResetDedupeFutureInFlight)
    /\ WF_vars(ResetJobReturn)
    /\ WF_vars(Flush)
    /\ \A r \in Reqs : WF_vars(ReqStep(r) \/ Retry(r) \/ RetryFutureErr(r))

\* Concurrent AddIssuerChain calls over one issuer store, in-memory or S3.
IssuerNext ==
    \/ \E c \in Calls, chain \in Chains : AddIssuerChain(c, chain)
    \/ \E c \in Calls : CacheLookup(c)
    \/ \E c \in Calls : InMemoryAddIssuersIfNotExist(c)
    \/ \E c \in Calls : AwsAddIssuersIfNotExist(c)
    \/ \E c \in Calls : CacheCheck(c)
    \/ \E c \in Calls : CacheInsert(c)

IssuerSpec ==
    /\ CTInit(0) /\ ~enableAwaiter /\ maxDedupeFutureInFlight = 0
    /\ IssuerInit(NumCalls, {"inmemory", "aws"})
    /\ LogCfgInit({DefaultLogCfg})
    /\ X509Init({NoCall})
    /\ [][IssuerNext]_vars

\* Validation of a log configuration at start-up.
ConfigNext ==
    \/ ConfigNew
    \/ ValidateNotAfter

ConfigSpec ==
    /\ CTInit(0) /\ ~enableAwaiter /\ maxDedupeFutureInFlight = 0
    /\ IssuerInit(0, {"inmemory"})
    /\ LogCfgInit(LogCfgInputs)
    /\ X509Init({NoCall})
    /\ [][ConfigNext]_vars

\* A duplicate recovery about to read the bundle of its index: the log holds
\* size entries (those of earlier submissions, all alike to the recovery), all
\* integrated and covered by the checkpoint Await returned, and the duplicate's
\* future resolved to an index below that size.
BundleInit(sizes) ==
    \E size \in sizes : \E index \in 0..(size - 1) :
        /\ enableAwaiter = FALSE
        /\ maxDedupeFutureInFlight = 0
        /\ dedupeFutureInFlight = 1
        /\ ctxDone = FALSE
        /\ resetJob = "running"
        /\ admitted = 1
        /\ pc = [r \in Reqs |-> IF r = 1 THEN "done"
                                ELSE IF r = 2 THEN "dd_read" ELSE "absent"]
        /\ entry = [r \in Reqs |-> IF r \in {1, 2} THEN [leaf |-> 1, ts |-> r]
                                   ELSE NoEntry]
        /\ future = [r \in Reqs |->
                        IF r = 1 THEN [kind |-> "queued", owner |-> 1, idx |-> 0,
                                       dup |-> FALSE]
                        ELSE IF r = 2 THEN [kind |-> "fixed", owner |-> 0,
                                            idx |-> index, dup |-> TRUE]
                        ELSE NoFuture]
        /\ cpRaw = [r \in Reqs |-> IF r = 2 THEN Checkpoint(size) ELSE NoCp]
        /\ ret = [r \in Reqs |-> IF r = 1 THEN [index |-> 0, ts |-> 1, err |-> "nil",
                                                at |-> 1]
                                 ELSE NoRet]
        /\ clock = 2
        /\ queue = <<>>
        /\ log = [k \in 1..size |-> 1]
        /\ treeSize = size
        /\ pubInFlight = {}
        /\ checkpoint = size
        /\ published = <<size>>
        /\ followerPos = size
        /\ lru = {}
        /\ awSize = size

BundleNext == \E r \in Reqs : DedupeRead(r)

BundleSpec ==
    /\ BundleInit(1..MaxLogSize)
    /\ IssuerInit(0, {"inmemory"})
    /\ LogCfgInit({DefaultLogCfg})
    /\ X509Init({NoCall})
    /\ [][BundleNext]_vars

\* The entry builder applied to chains, TBSCertificates and certificates.
X509Next ==
    \/ EntryFromChainCall
    \/ EntryFromChainOther
    \/ EntryFromChainAgain
    \/ BuildPrecertTBSRederive
    \/ BuildPrecertTBSCall
    \/ BuildPrecertTBSAgain
    \/ RemoveCTPoisonCall
    \/ isPreIssuerCall

X509Spec ==
    /\ CTInit(0) /\ ~enableAwaiter /\ maxDedupeFutureInFlight = 0
    /\ IssuerInit(0, {"inmemory"})
    /\ LogCfgInit({DefaultLogCfg})
    /\ X509Init(X509Calls)
    /\ [][X509Next]_vars

\* ------------------------------------------------------------ properties

\* Add returned (index, timestamp) without error to request r.
Ok(r) == pc[r] \in {"done", "cancelled"} /\ ret[r].err = "nil"

\* Request r was answered from the duplicate path / sequenced as a new entry.
IsDup(r) == future[r].dup
NonDup(r) == future[r].kind = "queued" /\ ~future[r].dup

SameLeaf(r1, r2) == entry[r1].leaf = entry[r2].leaf

\* Add(e2) was called after Add(e1) had returned.
Later(r1, r2) == entry[r2].ts > ret[r1].at

\* The log indices at which leaf l is sequenced.
IndicesOf(l) == {i \in 0..(Len(log) - 1) : LogEntry(i).leaf = l}

\* C1 as stated: a duplicate Add that follows a non-duplicate Add of the same
\* leaf returns exactly the (index, timestamp) the first call returned.
C1_Original ==
    \A r1, r2 \in Reqs :
        (Ok(r1) /\ NonDup(r1) /\ Ok(r2) /\ IsDup(r2) /\ SameLeaf(r1, r2) /\ Later(r1, r2))
            => (ret[r2].index = ret[r1].index /\ ret[r2].ts = ret[r1].ts)

\* C1 amended: a duplicate Add returns an index at which its leaf is sequenced
\* together with the timestamp stored in the log at that index, which is what
\* the non-duplicate Add assigned that index returned, never its own submission
\* timestamp; it equals the earlier call's (i, t1) whenever the leaf is
\* sequenced at one index only.
C1_Theorem ==
    \A r2 \in Reqs :
        (Ok(r2) /\ IsDup(r2)) =>
            LET j == ret[r2].index IN
            /\ j \in IndicesOf(entry[r2].leaf)
            /\ ret[r2].ts = LogEntry(j).ts
            /\ ret[r2].ts # entry[r2].ts
            /\ \A r1 \in Reqs :
                (Ok(r1) /\ NonDup(r1) /\ SameLeaf(r1, r2)) =>
                    /\ ret[r1].index = j => ret[r1].ts = ret[r2].ts
                    /\ Cardinality(IndicesOf(entry[r2].leaf)) = 1 =>
                           (ret[r2].index = ret[r1].index /\ ret[r2].ts = ret[r1].ts)

\* A duplicate submitted after the first call returned got the first call's answer.
C1_Witness ==
    \E r1, r2 \in Reqs :
        /\ Ok(r1) /\ NonDup(r1) /\ Ok(r2) /\ IsDup(r2)
        /\ SameLeaf(r1, r2) /\ Later(r1, r2)
        /\ ret[r2].index = ret[r1].index /\ ret[r2].ts = ret[r1].ts
        /\ ret[r2].ts # entry[r2].ts

\* C2 as stated: two submissions with the same canonical leaf bytes always
\* resolve to the same log index.
C2_Original ==
    \A r1, r2 \in Reqs :
        (Ok(r1) /\ Ok(r2) /\ SameLeaf(r1, r2)) => ret[r1].index = ret[r2].index

\* A submission whose leaf is in the in-process cache or in the antispam index
\* is answered as a duplicate and is not queued again.
KnownLeafIsDup ==
    \A r \in Reqs :
        (pc[r] = "idle" /\ pc'[r] = "future"
         /\ (Cached(entry'[r].leaf) # {} \/ asIndex(entry'[r].leaf) # NoIdx))
            => (future'[r].dup /\ queue' = queue)

\* Every Add that succeeds returns an index at which its leaf is sequenced, so
\* two submissions of a leaf sequenced once get the same index.
ResolvesToOwnLeaf ==
    \A r1 \in Reqs :
        Ok(r1) =>
            /\ ret[r1].index \in IndicesOf(entry[r1].leaf)
            /\ \A r2 \in Reqs :
                (Ok(r2) /\ SameLeaf(r1, r2) /\ Cardinality(IndicesOf(entry[r1].leaf)) = 1)
                    => ret[r1].index = ret[r2].index

\* C2 amended: two submissions with the same canonical leaf bytes resolve to
\* an index at which that leaf is sequenced, hence to the same index while the
\* leaf is sequenced once; a leaf is sequenced again only by a submission that
\* finds it neither in the in-process cache nor in the antispam index (the
\* race window of the antispam follower).
C2_Theorem == []ResolvesToOwnLeaf /\ [][KnownLeafIsDup]_vars

\* Two successful submissions of one leaf, the second a duplicate, same index.
C2_Witness ==
    \E r1, r2 \in Reqs :
        /\ r1 # r2 /\ Ok(r1) /\ Ok(r2) /\ SameLeaf(r1, r2)
        /\ NonDup(r1) /\ IsDup(r2)
        /\ ret[r1].index = ret[r2].index

\* Requests inside a duplicate recovery that passed the admission check.
Recovering == {r \in Reqs : pc[r] \in {"dd_add", "dd_await", "dd_read"}}

\* C3: between two resets of the in-flight counter, at most
\* pushback_max_dedupe_in_flight calls pass dedupeFuture's admission check.
C3_Claim == admitted <= maxDedupeFutureInFlight

\* With the awaiter enabled a non-duplicate is answered only after a covering
\* checkpoint was published; with it disabled Add never sits in Await.
ReturnsAfterPublication ==
    \A r \in Reqs :
        /\ (enableAwaiter /\ Ok(r) /\ NonDup(r)) =>
               \E k \in 1..Len(published) : published[k] > ret[r].index
        /\ ~enableAwaiter => pc[r] # "await"

\* With the awaiter disabled, the step that takes the index from the future
\* is the step that returns it, with the entry's own timestamp.
ReturnsOnAssignment ==
    \A r \in Reqs :
        (~enableAwaiter /\ pc[r] = "future" /\ pc'[r] # "future" /\ NonDup(r))
            => /\ pc'[r] = "done"
               /\ ret'[r].err = "nil"
               /\ ret'[r].index = IndexOfOwner(r)
               /\ ret'[r].ts = entry[r].ts

\* C4: with the publication awaiter enabled, Add answers a non-duplicate only
\* once a checkpoint of size greater than its index has been published; with
\* the awaiter disabled Add never waits for a checkpoint and answers with the
\* index as soon as the future has yielded it.
C4_Theorem == []ReturnsAfterPublication /\ [][ReturnsOnAssignment]_vars

\* The awaiter is enabled and a non-duplicate Add has returned its index.
C4_Witness ==
    \E r \in Reqs : enableAwaiter /\ Ok(r) /\ NonDup(r) /\ checkpoint > ret[r].index

\* The size of the first published checkpoint that covered index i (0: none yet).
FirstCover(i) ==
    LET K == {k \in 1..Len(published) : published[k] > i} IN
    IF K = {} THEN 0
    ELSE published[CHOOSE k \in K : \A j \in K : k <= j]

\* C5 as stated: the checkpoint Await returns is the first published
\* checkpoint that covered the future's index.
C5_Original ==
    \A r \in Reqs :
        pc[r] = "dd_read" => cpRaw[r][2] = FirstCover(FutureIndex(future[r]))

\* C5 amended: Await never returns before a checkpoint of size greater than
\* the index has been published, and it returns a published checkpoint that
\* covers the index: the one the awaiter polled last, which is the first
\* covering checkpoint or a later one.
C5_Theorem ==
    \A r \in Reqs :
        pc[r] = "dd_read" =>
            LET i == FutureIndex(future[r])
                size == cpRaw[r][2]
            IN /\ size > i
               /\ \E k \in 1..Len(published) : published[k] = size
               /\ FirstCover(i) # 0
               /\ size >= FirstCover(i)
               /\ size <= checkpoint

\* Await returned a covering checkpoint that is not the first one.
C5_Witness ==
    \E r \in Reqs :
        /\ pc[r] = "dd_read"
        /\ cpRaw[r][2] > FutureIndex(future[r])
        /\ cpRaw[r][2] > FirstCover(FutureIndex(future[r]))

\* The step in which request r's duplicate recovery is cancelled in Await.
RecoveryCancelled(r) == pc[r] = "dd_await" /\ pc'[r] = "done"

\* C6 as stated: a cancelled duplicate recovery returns an error and gives its
\* slot in the in-flight counter back.
C6_Original ==
    [][\A r \in Reqs :
          RecoveryCancelled(r) =>
              (ret'[r].err # "nil" /\ dedupeFutureInFlight' = dedupeFutureInFlight - 1)]_vars

\* C6 amended: a cancelled duplicate recovery returns an error with index 0
\* and timestamp 0 and leaves the in-flight counter as it is: the call stays
\* counted until the periodic reset clears the counter.
C6_Theorem ==
    [][\A r \in Reqs :
          RecoveryCancelled(r) =>
              /\ ret'[r].err = "await" /\ ret'[r].index = 0 /\ ret'[r].ts = 0
              /\ dedupeFutureInFlight' = dedupeFutureInFlight
              /\ admitted' = admitted]_vars

\* A recovery was cancelled and the counter still counts it.
C6_Witness ==
    \E r \in Reqs :
        /\ pc[r] = "done" /\ IsDup(r) /\ ret[r].err = "await"
        /\ Recovering = {}
        /\ dedupeFutureInFlight >= 1

\* C7: with pushback_max_dedupe_in_flight = 0 no duplicate recovery is ever
\* admitted: every duplicate Add is pushed back.
C7_Claim ==
    maxDedupeFutureInFlight = 0 =>
        /\ Recovering = {}
        /\ \A r \in Reqs : (pc[r] = "done" /\ IsDup(r)) => ret[r].err = "pushback"

\* The request's context ended after its entry was given an index.
Cancelled(r) ==
    /\ NonDup(r)
    /\ \/ pc[r] = "cancelled"
       \/ pc[r] = "done" /\ ret[r].err = "await"

Covered(r) == IndexOfOwner(r) # NoIdx /\ checkpoint > IndexOfOwner(r)

\* No step takes an assigned index away or gives it to another entry.
AssignmentKept ==
    /\ Len(log') >= Len(log)
    /\ \A i \in 1..Len(log) : log'[i] = log[i]
    /\ \A i, j \in 1..Len(log') : log'[i] = log'[j] => i = j

\* C8: cancelling a request whose entry has an index never rolls the
\* assignment back nor frees the index, and the entry is eventually covered by
\* a published checkpoint as long as the background workers run.
C8_Theorem ==
    /\ [][AssignmentKept]_vars
    /\ \A r \in Reqs : Cancelled(r) ~> Covered(r)

\* A cancelled request whose entry a published checkpoint covers.
C8_Witness == \E r \in Reqs : Cancelled(r) /\ Covered(r)

\* C9: checkpoint sizes never decrease along the sequence of published
\* checkpoints, and at most one checkpoint publication is in progress.
C9_Theorem ==
    /\ \A k \in 1..(Len(published) - 1) : published[k] <= published[k + 1]
    /\ Cardinality(pubInFlight) <= 1
    /\ (published # <<>> => checkpoint = published[Len(published)])

\* Several checkpoints have been published.
C9_Witness == Len(published) >= 2 /\ pubInFlight # {}

\* A flush gives the queued entries the next indices, in queue order.
FlushAssignsRange ==
    (queue # <<>> /\ queue' = <<>>) =>
        /\ Len(log') = Len(log) + Len(queue)
        /\ \A k \in 1..Len(queue) : log'[Len(log) + k] = queue[k]

\* Indices follow submission order, no entry has two indices, no index is
\* held by two entries, every sequenced entry is a non-duplicate one.
IndexOrder ==
    /\ \A i, j \in 1..Len(log) : i < j => entry[log[i]].ts < entry[log[j]].ts
    /\ \A i, j \in 1..Len(log) : log[i] = log[j] => i = j
    /\ \A r1, r2 \in Reqs :
           (NonDup(r1) /\ NonDup(r2) /\ r1 # r2
            /\ IndexOfOwner(r1) # NoIdx /\ IndexOfOwner(r2) # NoIdx)
               => IndexOfOwner(r1) # IndexOfOwner(r2)
    /\ \A i \in 1..Len(log) : NonDup(log[i])

\* C10: a batch flush assigns the contiguous range [base, base+N) in submission
\* order, successive flushes follow flush order, and no index is given to two
\* distinct non-duplicate entries or skipped.
C10_Theorem == []IndexOrder /\ [][FlushAssignsRange]_vars

\* A first flush sequenced one entry, later flushes two more.
C10_Witness ==
    /\ Len(log) = 3
    /\ \E r \in Reqs : ret[r].err = "nil" /\ ret[r].at = 1 /\ ret[r].index = 0

\* A successful duplicate answer names an index some published checkpoint covers.
DupCovered ==
    \A r \in Reqs :
        (Ok(r) /\ IsDup(r)) => \E k \in 1..Len(published) : published[k] > ret[r].index

\* A duplicate leaves the future only into dedupeFuture, whatever enableAwaiter is.
DupAlwaysRecovers ==
    \A r \in Reqs :
        (pc[r] = "future" /\ pc'[r] # "future" /\ future[r].kind # "err" /\ IsDup(r))
            => (pc'[r] = "dd_load" /\ ret'[r] = ret[r])

\* C11: for a duplicate, Add always goes through the wait for a checkpoint
\* covering the duplicate's index, with the publication awaiter enabled or not;
\* it never returns a duplicate's (index, timestamp) for an index that no
\* published checkpoint covers.
C11_Theorem == []DupCovered /\ [][DupAlwaysRecovers]_vars

\* The awaiter is disabled and a duplicate Add has returned its index.
C11_Witness ==
    \E r \in Reqs : ~enableAwaiter /\ Ok(r) /\ IsDup(r) /\ checkpoint > ret[r].index

\* Request r has been submitted and Add has not returned yet.
InAdd(r) == pc[r] \in {"future", "await", "dd_load", "dd_add", "dd_await", "dd_read"}

StoreReturnedNil(c) ==
    \/ ipc[c] \in {"cache", "insert"}
    \/ ipc[c] = "done" /\ ierr[c] = "nil"

\* Every key handed to AddIssuersIfNotExist by call c is in the store.
AllPresent(c) == \A i \in 1..Len(req[c]) : objects[req[c][i].K] # NoVal

\* No step changes or removes the value a key holds.
WriteOnce == \A k \in Keys : objects[k] # NoVal => objects'[k] = objects[k]

\* Over the in-memory store a call never fails and leaves every key of its
\* request present: existing keys are skipped, the absent ones are written.
InMemoryComplete ==
    issuerBackend = "inmemory" =>
        \A c \in Calls :
            /\ ierr[c] \in {"pending", "nil"}
            /\ StoreReturnedNil(c) => AllPresent(c)

C14_Claim == \A c \in Calls : StoreReturnedNil(c) => AllPresent(c)

\* C15: a failure of the backing store other than "already exists" makes the
\* call return an error (it neither succeeds nor crashes) and leaves the key
\* cache alone, and "already exists" makes no error.
C15_Claim ==
    [][\A c \in Calls :
          (ipc[c] = "store" /\ ipc'[c] \notin {"store", "cache"})
              => (ipc'[c] = "done" /\ ierr'[c] = "store" /\ m' = m)]_vars

\* C16: the in-process issuer key cache never holds more than
\* maxCachedIssuerKeys keys.
C16_Claim == Cardinality(m) <= maxCachedIssuerKeys

\* Every key of the chain that is not in the cache was handed to the store.
PassesUncached ==
    \A c \in Calls :
        ipc[c] \in {"store", "cache", "insert", "done", "crashed"} =>
            \A i \in 1..Len(kvs[c]) :
                kvs[c][i].K \notin m => \E j \in 1..Len(req[c]) : req[c][j] = kvs[c][i]

\* Once the store has returned nil the call can only return nil.
SucceedsAfterStore ==
    \A c \in Calls :
        ipc[c] \in {"cache", "insert"} =>
            /\ ipc'[c] \in {"cache", "insert", "done"}
            /\ ierr'[c] \in {"pending", "nil"}

\* C17: with the key cache full, AddIssuerChain still hands every key that is
\* not in the cache to the backing store and returns nil when the store did:
\* overflow stops the caching, never the writing.
C17_Theorem == []PassesUncached /\ [][SucceedsAfterStore]_vars

\* The cache is full and a call returned nil after writing a key that is not
\* cached.
C17_Witness ==
    \E c \in Calls :
        /\ Cardinality(m) >= maxCachedIssuerKeys
        /\ ipc[c] = "done" /\ ierr[c] = "nil"
        /\ \E i \in 1..Len(req[c]) :
               req[c][i].K \notin m /\ objects[req[c][i].K] = c

\* C18: only NIST P-256 signer keys are accepted: New returns an error for a
\* nil signer and for every signer whose public key is not an ECDSA P-256 key
\* (ECDSA on another curve, RSA, Ed25519).
C18_Claim ==
    validated.done =>
        (logCfg.signer # [type |-> "ecdsa", curve |-> "P-256"]
            => (validated.new.err # "nil" /\ validated.new.vCfg = NoOpts))

\* C19: a configuration with both reject_expired and reject_unexpired set is
\* rejected with an error and no validator is returned, whatever its other
\* fields are, provided the roots file loads.
C19_Theorem ==
    (validated.done /\ RootsLoad(logCfg.cfg.RootsPemFile)
        /\ logCfg.cfg.RejectExpired /\ logCfg.cfg.RejectUnexpired)
    => /\ validated.cvo = [err |-> "rejecting all certificates", opts |-> NoOpts]
       /\ validated.new.err # "nil"
       /\ validated.new.vCfg = NoOpts

\* Both flags set in a configuration whose NotAfter window, key usages and
\* rejected extensions are all wrong too, and the answer names the flags.
C19_Witness ==
    /\ validated.done
    /\ logCfg.cfg.RejectExpired /\ logCfg.cfg.RejectUnexpired
    /\ LimitBeforeStart(logCfg.cfg)
    /\ logCfg.cfg.ExtKeyUsages = <<"ServerAuth", "TimeStomping">>
    /\ logCfg.cfg.RejectExtensions # <<>>
    /\ validated.cvo.err = "rejecting all certificates"
    /\ validated.new.err = "invalid cert validation config"

\* The configuration reaches the NotAfter check of newCertValidationOpts.
ReachesWindowCheck(cfg) == RootsLoad(cfg.RootsPemFile) /\ ~RejectsAll(cfg)

\* C20: a configuration is rejected for its NotAfter window exactly when both
\* bounds are set and not_after_limit is strictly before not_after_start; with
\* one bound only, or with limit equal to or after start, the window is
\* accepted (and so is the configuration if nothing else is wrong with it).
C20_Theorem ==
    (validated.done /\ ReachesWindowCheck(logCfg.cfg)) =>
        LET cfg == logCfg.cfg
            bad == /\ cfg.NotAfterStart \in Times /\ cfg.NotAfterLimit \in Times
                   /\ cfg.NotAfterLimit < cfg.NotAfterStart
        IN /\ validated.cvo.err = "limit before start" <=> bad
           /\ (~bad /\ cfg.ExtKeyUsages = <<>> /\ cfg.RejectExtensions = <<>>)
                  => /\ validated.cvo.err = "nil"
                     /\ validated.cvo.opts.notAfterStart = cfg.NotAfterStart
                     /\ validated.cvo.opts.notAfterLimit = cfg.NotAfterLimit

\* A window whose limit equals its start has been accepted.
C20_Witness ==
    /\ validated.done
    /\ logCfg.cfg.NotAfterStart \in Times
    /\ logCfg.cfg.NotAfterLimit = logCfg.cfg.NotAfterStart
    /\ validated.cvo.err = "nil"
    /\ validated.new.err = "nil"

\* The configuration reaches the key usage loop of newCertValidationOpts.
ReachesKeyUsages(cfg) == ReachesWindowCheck(cfg) /\ ~LimitBeforeStart(cfg)

\* C21: a configuration whose ExtKeyUsages list holds a name that is not a
\* known extended key usage (compared exactly, spaces included) is rejected
\* with "unknown extended key usage", wherever in the list the name stands.
C21_Claim ==
    (validated.done /\ ReachesKeyUsages(logCfg.cfg)
        /\ \E i \in 1..Len(logCfg.cfg.ExtKeyUsages) :
               logCfg.cfg.ExtKeyUsages[i] \notin stringToKeyUsage)
    => /\ validated.cvo = [err |-> "unknown extended key usage", opts |-> NoOpts]
       /\ validated.new.err # "nil"

\* EntryFromChain returned an entry for the chain it was called on.
EntryBuilt ==
    /\ x509Call.fn = "EntryFromChain"
    /\ x509Ret.done
    /\ x509Ret.err = "nil"

\* The chain is [precert, pre-issuer, intermediate, root].
PreIssuerChain ==
    /\ x509Call.fn = "EntryFromChain"
    /\ x509Call.isPrecert
    /\ Len(x509Call.chain) = 4
    /\ x509Call.chain[2].IsCA
    /\ OIDExtKeyUsageCertificateTransparency \in x509Call.chain[2].ExtKeyUsage
    /\ x509Call.chain[3] = intermediateCert
    /\ x509Call.chain[4] = rootCert

\* C22: the entry's fingerprints_chain is the SHA-256 of each certificate
\* above the leaf, in chain order, leaving out a CT pre-issuer: for
\* [precert, pre_issuer, inter, root] it is [SHA256(inter), SHA256(root)].
C22_Claim ==
    EntryBuilt =>
        LET chain == x509Call.chain
            kept == {i \in 2..Len(chain) :
                        ~(chain[i].IsCA /\ OIDExtKeyUsageCertificateTransparency
                                               \in chain[i].ExtKeyUsage)}
            fp == x509Ret.entry.FingerprintsChain
        IN /\ Len(fp) = Cardinality(kept)
           /\ \A i \in kept :
                  fp[Cardinality({j \in kept : j <= i})] = sha256(Raw(chain[i]))
           /\ PreIssuerChain =>
                  fp = <<sha256(Raw(intermediateCert)), sha256(Raw(rootCert))>>

\* C23: EntryFromChain returns as FingerprintsChain the SHA-256 of every
\* certificate chain[1..] in chain order, for certificate and precertificate
\* chains alike: for [precert, pre_issuer, inter, root] that is
\* [SHA256(pre_issuer), SHA256(inter), SHA256(root)].
C23_Theorem ==
    EntryBuilt =>
        LET chain == x509Call.chain
            fp == x509Ret.entry.FingerprintsChain
        IN /\ Len(fp) = Len(chain) - 1
           /\ \A i \in 1..Len(fp) : fp[i] = sha256(Raw(chain[i + 1]))
           /\ PreIssuerChain =>
                  fp = <<sha256(Raw(chain[2])), sha256(Raw(intermediateCert)),
                         sha256(Raw(rootCert))>>

\* An entry was built for [precert, pre_issuer, inter, root], and its
\* fingerprints start with the pre-issuer's.
C23_Witness ==
    /\ EntryBuilt
    /\ PreIssuerChain
    /\ Len(x509Ret.entry.FingerprintsChain) = 3
    /\ x509Ret.entry.FingerprintsChain[1] = sha256(Raw(x509Call.chain[2]))

\* C24: for a precertificate entry, issuer_key_hash is the SHA-256 of the
\* SubjectPublicKeyInfo of the effective issuer, the certificate right above
\* the leaf, be it a CT pre-issuer or the real issuer; for a certificate
\* entry issuer_key_hash and precertificate are empty and certificate is the
\* leaf's DER.
C24_Theorem ==
    EntryBuilt =>
        LET chain == x509Call.chain
            e == x509Ret.entry
        IN IF x509Call.isPrecert
           THEN /\ e.IsPrecert
                /\ e.IssuerKeyHash = sha256([spki |-> chain[2].SPKI])
                /\ e.Precertificate = [certificate |-> chain[1]]
           ELSE /\ ~e.IsPrecert
                /\ e.IssuerKeyHash = NoBytes
                /\ e.Precertificate = NoBytes
                /\ e.Certificate = [certificate |-> chain[1]]

\* An entry was built for [precert, pre_issuer, inter, root], and its issuer
\* key hash is that of the pre-issuer's key, which is not the intermediate's.
C24_Witness ==
    /\ EntryBuilt
    /\ PreIssuerChain
    /\ x509Ret.entry.IssuerKeyHash = sha256([spki |-> "preIssuerKey"])
    /\ x509Ret.entry.IssuerKeyHash # sha256([spki |-> intermediateCert.SPKI])

\* BuildPrecertTBS returned a TBSCertificate.
TBSBuilt ==
    /\ x509Call.fn = "BuildPrecertTBS"
    /\ x509Ret.done
    /\ x509Ret.err = "nil"

\* The AKI extensions among exts, in order.
AKIsOf(exts) == SelectSeq(exts, LAMBDA e : e.Id = OIDExtAuthorityKeyId)

\* C25: when a CT pre-issuer signed the precert, BuildPrecertTBS rewrites the
\* AKI extension to the key ID of the pre-issuer's issuer only if both the
\* precert and the pre-issuer carry an AKI; if either lacks one, the precert's
\* AKI extension (present or absent) is left as submitted.
C25_Claim ==
    (TBSBuilt /\ x509Call.preIssuer # NoCert) =>
        LET mine == AKIsOf(x509Call.tbs.Extensions)
            theirs == AKIsOf(x509Call.preIssuer.TBS.Extensions)
            out == AKIsOf(x509Ret.tbs.Extensions)
        IN IF mine # <<>> /\ theirs # <<>> THEN out = <<akiExt(issuerKeyID)>>
           ELSE out = mine

\* C26: with a pre-issuer, the TBS returned by BuildPrecertTBS carries an AKI
\* extension exactly when the pre-issuer has one, with the pre-issuer's AKI
\* value: the precert's AKI is replaced if the pre-issuer has an AKI, removed
\* if it has none, and an AKI is added when the precert had none but the
\* pre-issuer has one; without a pre-issuer the precert's AKI is unchanged.
C26_Theorem ==
    TBSBuilt =>
        LET mine == AKIsOf(x509Call.tbs.Extensions)
            out == AKIsOf(x509Ret.tbs.Extensions)
        IN IF x509Call.preIssuer = NoCert THEN out = mine
           ELSE LET theirs == AKIsOf(x509Call.preIssuer.TBS.Extensions) IN
                /\ out = theirs
                /\ x509Ret.tbs.Issuer = x509Call.preIssuer.TBS.Issuer
                /\ (mine # <<>> /\ theirs # <<>>) => out = <<akiExt(issuerKeyID)>>
                /\ (mine # <<>> /\ theirs = <<>>) => out = <<>>
                /\ (mine = <<>> /\ theirs # <<>>) => out = <<akiExt(issuerKeyID)>>

\* A precert with an AKI, signed by a pre-issuer without one, came back
\* without its AKI.
C26_Witness ==
    /\ TBSBuilt
    /\ x509Call.preIssuer # NoCert
    /\ AKIsOf(x509Call.tbs.Extensions) = <<akiExt(preIssuerKeyID)>>
    /\ AKIsOf(x509Call.preIssuer.TBS.Extensions) = <<>>
    /\ AKIsOf(x509Ret.tbs.Extensions) = <<>>

\* RemoveCTPoison returned.
PoisonRemovalDone == x509Call.fn = "RemoveCTPoison" /\ x509Ret.done

\* C27: RemoveCTPoison on a TBS with exactly one CT poison extension returns
\* the same TBS without it, the surviving extensions in their order, so the
\* result does not depend on where the poison stood; it returns an error when
\* the TBS has no poison extension, more than one, trailing bytes after it,
\* or is not valid DER.
C27_Theorem ==
    PoisonRemovalDone =>
        LET tbs == x509Call.tbs
            n == ExtCount(tbs.Extensions, OIDExtensionCTPoison)
            failed == x509Ret.err # "nil" /\ x509Ret.tbs = NoTBS
        IN /\ tbs.der = "invalid" => (failed /\ x509Ret.err = "failed to parse")
           /\ tbs.der = "trailing" => (failed /\ x509Ret.err = "trailing data")
           /\ (tbs.der = "ok" /\ n = 0) =>
                  (failed /\ x509Ret.err = "no extension of specified type present")
           /\ (tbs.der = "ok" /\ n > 1) =>
                  (failed
                   /\ x509Ret.err = "multiple extensions of specified type present")
           /\ (tbs.der = "ok" /\ n = 1) =>
                  /\ x509Ret.err = "nil"
                  /\ x509Ret.tbs =
                         [der |-> "ok", Issuer |-> tbs.Issuer,
                          Extensions |-> SelectSeq(tbs.Extensions,
                                             LAMBDA e : e.Id # OIDExtensionCTPoison)]

\* A poison extension standing between two others was removed.
C27_Witness ==
    /\ PoisonRemovalDone
    /\ Len(x509Call.tbs.Extensions) = 3
    /\ x509Call.tbs.Extensions[2] = poisonExt
    /\ x509Ret.err = "nil"
    /\ x509Ret.tbs.Extensions =
           <<x509Call.tbs.Extensions[1], x509Call.tbs.Extensions[3]>>

\* C28: BuildPrecertTBS applied to its own successful output, with the same
\* pre-issuer or with none, fails with the no-poison error and returns no
\* second TBS.
C28_Theorem ==
    (TBSBuilt /\ x509Ret.again.done) =>
        \A r \in {x509Ret.again.same, x509Ret.again.none} :
            /\ r.err = "no extension of specified type present"
            /\ r.tbs = NoTBS

\* The output of BuildPrecertTBS under a pre-issuer, with its AKI rewritten,
\* was handed to BuildPrecertTBS again.
C28_Witness ==
    /\ TBSBuilt
    /\ x509Ret.again.done
    /\ x509Call.preIssuer # NoCert
    /\ x509Ret.tbs.Extensions # <<>>
    /\ AKIsOf(x509Ret.tbs.Extensions) = <<akiExt(issuerKeyID)>>
    /\ x509Ret.again.same.err # "nil"

\* EntryFromChain returned an error and no entry.
EntryFailed ==
    /\ x509Call.fn = "EntryFromChain"
    /\ x509Ret.done
    /\ x509Ret.err # "nil"
    /\ x509Ret.entry = NoX509Entry

\* C29: EntryFromChain fails and returns no entry when the chain has length 1
\* (no issuer), and when a precert's chain[1] is a CT pre-issuer with no
\* certificate above it (no final issuer).
C29_Theorem ==
    (x509Call.fn = "EntryFromChain" /\ x509Ret.done) =>
        LET chain == x509Call.chain IN
        /\ Len(chain) = 1 => EntryFailed
        /\ (/\ x509Call.isPrecert
            /\ Len(chain) = 2
            /\ chain[2].IsCA
            /\ OIDExtKeyUsageCertificateTransparency \in chain[2].ExtKeyUsage)
              => EntryFailed

\* A precert with one poison extension, under a pre-issuer that ends the
\* chain, gave an error.
C29_Witness ==
    /\ EntryFailed
    /\ x509Call.isPrecert
    /\ Len(x509Call.chain) = 2
    /\ x509Call.chain[2].IsCA
    /\ OIDExtKeyUsageCertificateTransparency \in x509Call.chain[2].ExtKeyUsage
    /\ ExtCount(x509Call.chain[1].TBS.Extensions, OIDExtensionCTPoison) = 1
    /\ x509Ret.err = "no final issuer"

\* C30: a certificate is a CT pre-issuer if and only if it has IsCA and its
\* extended key usages hold 1.3.6.1.4.1.11129.2.4.4, whatever other key
\* usages stand beside it.
C30_Theorem ==
    (x509Call.fn = "isPreIssuer" /\ x509Ret.done) =>
        (x509Ret.is <=>
            (x509Call.cert.IsCA
             /\ "1.3.6.1.4.1.11129.2.4.4" \in x509Call.cert.ExtKeyUsage))

\* A certificate with the CT key usage beside another one, but not a CA, was
\* found not to be a pre-issuer.
C30_Witness ==
    /\ x509Call.fn = "isPreIssuer"
    /\ x509Ret.done
    /\ ~x509Call.cert.IsCA
    /\ x509Call.cert.ExtKeyUsage =
           {anyExtendedKeyUsage, OIDExtKeyUsageCertificateTransparency}
    /\ ~x509Ret.is

C32_Theorem ==
    (validated.done /\ validated.leaf.done) =>
        LET start == logCfg.cfg.NotAfterStart
            limit == logCfg.cfg.NotAfterLimit
            t == validated.leaf.notAfter
        IN validated.leaf.err = "nil"
               <=> /\ start \in Times => start <= t
                   /\ limit \in Times => t < limit

\* A leaf whose NotAfter equals the start bound and lies before the limit
\* passed the window.
C32_Witness ==
    /\ validated.done
    /\ validated.leaf.done
    /\ logCfg.cfg.NotAfterStart = validated.leaf.notAfter
    /\ logCfg.cfg.NotAfterLimit \in Times
    /\ validated.leaf.err = "nil"

\* C33: every key held in the in-process issuer key cache is present in the
\* backing issuer store, for the in-memory store and the S3 store alike and
\* for every order of the keys in a request.
C33_Claim == \A k \in m : objects[k] # NoVal

\* The counter moves by one admitted recovery passing Add(1), or to 0.
CounterStep ==
    dedupeFutureInFlight' # dedupeFutureInFlight =>
        \/ /\ dedupeFutureInFlight' = dedupeFutureInFlight + 1
           /\ \E r \in Reqs : pc[r] = "dd_add" /\ pc'[r] = "dd_await"
        \/ /\ dedupeFutureInFlight' = 0
           /\ pc' = pc

\* A recovery that completes, fails or is pushed back leaves the counter
\* alone, and one that is pushed back has awaited and read nothing.
CounterKept ==
    \A r \in Reqs :
        /\ (pc[r] \in {"dd_load", "dd_await", "dd_read"} /\ pc'[r] \in {"done", "cancelled"})
              => dedupeFutureInFlight' = dedupeFutureInFlight
        /\ (pc[r] = "dd_load" /\ pc'[r] = "done")
              => /\ ret'[r].err = "pushback"
                 /\ ret'[r].index = 0 /\ ret'[r].ts = 0
                 /\ cpRaw'[r] = NoCp

\* C34: the in-flight dedupe counter is monotonic between resets: it changes
\* only by +1 when a duplicate recovery is admitted and by being set to 0 by
\* the ticker; it is never decremented when a recovery completes, fails or is
\* cancelled, and a call that is pushed back leaves it unchanged and performs
\* no await and no bundle read.
C34_Theorem == [][CounterStep /\ CounterKept]_vars

\* One duplicate recovery completed and a later one was pushed back, and the
\* counter still counts the completed one.
C34_Witness ==
    \E r1, r2 \in Reqs :
        /\ Ok(r1) /\ IsDup(r1)
        /\ pc[r2] = "done" /\ ret[r2].err = "pushback"
        /\ dedupeFutureInFlight = 1

\* C35: for every index i and checkpoint size s with i < s, the entry bundle
\* fetched by duplicate recovery (bundle i div 256, partial of width s mod 256
\* when i div 256 = s div 256 and s mod 256 is not 0, full otherwise) holds
\* more than i mod 256 entries, so the timestamp of entry i mod 256 is always
\* found.
C35_Theorem ==
    \A r \in Reqs :
        (future[r].kind = "fixed" /\ pc[r] = "done") =>
            LET i == future[r].idx
                size == checkpoint
                eBIdx == i \div 256
                p == PartialTileSize(eBIdx, size)
                eB == ReadEntryBundle(eBIdx, p)
            IN /\ i < size
               /\ p # 0 <=> (eBIdx = size \div 256 /\ size % 256 # 0)
               /\ p # 0 => p = size % 256
               /\ eB.ok
               /\ Len(eB.entries) = IF p = 0 THEN 256 ELSE p
               /\ Len(eB.entries) > i % 256
               /\ ret[r].err = "nil"
               /\ ret[r].index = i
               /\ ret[r].ts = 1

\* The last entry of a full first bundle was recovered from a log that
\* reaches into the second bundle.
C35_Witness ==
    \E r \in Reqs :
        /\ future[r].kind = "fixed" /\ pc[r] = "done"
        /\ future[r].idx = 255
        /\ checkpoint > 256
        /\ ret[r].err = "nil"
        /\ ret[r].index = 255

\* The last call of Add for request r was pushed back by dedupeFuture.
PushedBack(r) == pc[r] = "done" /\ ret[r].err = "pushback"

\* Request r is past the admission check of dedupeFuture, or its retry was no
\* duplicate any more or failed before dedupeFuture, or the server is going down.
Served(r) ==
    \/ ctxDone
    \/ pc[r] \in {"dd_add", "await"}
    \/ pc[r] = "done" /\ ret[r].err # "pushback"

\* The counter keeps returning to 0 while the server context lives; the job
\* returns once the context is cancelled, never runs again, and without it the
\* counter never goes down.
ResetJobLifecycle ==
    /\ []<>(dedupeFutureInFlight = 0 \/ ctxDone)
    /\ ctxDone ~> (resetJob = "stopped")
    /\ [][/\ ctxDone => ctxDone'
          /\ resetJob = "stopped" =>
                (resetJob' = "stopped" /\ dedupeFutureInFlight' >= dedupeFutureInFlight)]_vars

\* C36 as stated: while the server context is not cancelled the counter is
\* reset to 0 again and again, so a pushed-back duplicate that keeps retrying
\* is eventually admitted; the reset worker stops and stays stopped once the
\* parent context is cancelled.
C36_Original ==
    /\ ResetJobLifecycle
    /\ \A r \in Reqs : PushedBack(r) ~> Served(r)

\* C36, amended: the counter is reset again and again and the worker stops for
\* good after cancellation; a pushed-back duplicate that keeps retrying is
\* eventually admitted provided the other duplicates stop taking the slots
\* ahead of it: the code keeps no order among the callers it pushed back.
C36_Theorem ==
    /\ ResetJobLifecycle
    /\ \A r \in Reqs :
          <>[](\A q \in Reqs \ {r} : pc[q] # "dd_add") => (PushedBack(r) ~> Served(r))

\* A duplicate that was pushed back passes the admission check on a retry,
\* after a reset, while the server runs.
C36_Witness ==
    \E r \in Reqs :
        /\ pc[r] = "dd_add"
        /\ ret[r].err = "pushback"
        /\ dedupeFutureInFlight = 0
        /\ ~ctxDone
        /\ resetJob = "running"

\* The call of Add for request r returns in this step.
AddReturns(r) == pc[r] # "done" /\ pc'[r] = "done"

\* C37: Add of a non-duplicate entry returns the index the appender assigned
\* with the entry's own timestamp as the caller supplied it, without touching
\* the in-flight dedupe counter and without fetching a checkpoint or an entry
\* bundle; every error return of Add carries index 0 and timestamp 0.
C37_Theorem ==
    [][\A r \in Reqs :
          AddReturns(r) =>
              /\ (ret'[r].err = "nil" /\ ~future[r].dup) =>
                    /\ pc[r] \in {"future", "await"}
                    /\ ret'[r].index = FutureIndex(future[r])
                    /\ log[ret'[r].index + 1] = r
                    /\ ret'[r].ts = entry[r].ts
                    /\ entry'[r] = entry[r]
                    /\ dedupeFutureInFlight' = dedupeFutureInFlight
                    /\ cpRaw'[r] = NoCp /\ cpRaw[r] = NoCp
              /\ ret'[r].err # "nil" =>
                    /\ ret'[r].err # "pending"
                    /\ ret'[r].index = 0
                    /\ ret'[r].ts = 0]_vars

\* A new entry was added at index 1 and returned with its own timestamp after
\* later submissions; another call ended in an error with index 0, timestamp 0.
C37_Witness ==
    \E r, q \in Reqs :
        /\ pc[r] = "done" /\ ret[r].err = "nil" /\ ~future[r].dup
        /\ ret[r].index = 1
        /\ ret[r].ts = entry[r].ts
        /\ clock > entry[r].ts
        /\ pc[q] = "done" /\ ret[q].err \notin {"nil", "pending"}
        /\ ret[q].index = 0 /\ ret[q].ts = 0

\* The ExtKeyUsages list holds "Any" with nothing but known names before it.
AnyAfterKnownNames(names) ==
    \E i \in 1..Len(names) :
        /\ names[i] = "Any"
        /\ \A j \in 1..(i - 1) : names[j] \in stringToKeyUsage

\* C38: when the ExtKeyUsages list holds "Any" and every name before it is
\* known, the list never fails the configuration and the allowed set is empty
\* (every EKU accepted): names after "Any" are neither validated nor kept, and
\* the known names before it are dropped.
C38_Theorem ==
    (validated.done /\ ReachesKeyUsages(logCfg.cfg)
        /\ AnyAfterKnownNames(logCfg.cfg.ExtKeyUsages)) =>
        /\ validated.cvo.err # "unknown extended key usage"
        /\ parseOIDs(logCfg.cfg.RejectExtensions).err = "nil" =>
              /\ validated.cvo.err = "nil"
              /\ validated.cvo.opts.extKeyUsages = <<>>
              /\ (logCfg.origin # "" /\ SignerSupported(logCfg.signer)) =>
                    validated.new.err = "nil"

\* A list naming ClientAuth and then Any was accepted with an empty set.
C38_Witness ==
    /\ validated.done
    /\ logCfg.cfg.ExtKeyUsages = <<"ClientAuth", "Any">>
    /\ validated.cvo.err = "nil"
    /\ validated.cvo.opts.extKeyUsages = <<>>
    /\ validated.new.err = "nil"

\* BuildPrecertTBS returned, with a TBS or with an error.
TBSCallDone == x509Call.fn = "BuildPrecertTBS" /\ x509Ret.done

\* C39: given a pre-issuer, BuildPrecertTBS returns a TBS whose Issuer is the
\* pre-issuer's own Issuer, and returns an error and no TBS when the
\* certificate given as pre-issuer lacks the CT pre-issuer key usage; given no
\* pre-issuer, the Issuer stays that of the submitted precertificate.
C39_Theorem ==
    TBSCallDone =>
        LET preIssuer == x509Call.preIssuer IN
        /\ (preIssuer # NoCert
               /\ OIDExtKeyUsageCertificateTransparency \notin preIssuer.ExtKeyUsage) =>
              (x509Ret.err # "nil" /\ x509Ret.tbs = NoTBS)
        /\ (preIssuer # NoCert /\ x509Ret.err = "nil") =>
              /\ OIDExtKeyUsageCertificateTransparency \in preIssuer.ExtKeyUsage
              /\ x509Ret.tbs.Issuer = preIssuer.TBS.Issuer
        /\ (preIssuer = NoCert /\ x509Ret.err = "nil") =>
              x509Ret.tbs.Issuer = x509Call.tbs.Issuer

\* A precertificate issued by "precert Issuer" came back with the Issuer of
\* the pre-issuer's certificate in its place.
C39_Witness ==
    /\ TBSCallDone
    /\ x509Ret.err = "nil"
    /\ x509Call.preIssuer # NoCert
    /\ x509Call.tbs.Issuer = "precert Issuer"
    /\ x509Ret.tbs.Issuer = "real Issuer"

====
